---- MODULE Spec2Model ----
(***************************************************************************)
(* Model of the Estately extraction pipeline (backend/estately).           *)
(*                                                                         *)
(*   Spec       one run of collect_estately for one target (scraper.py)    *)
(*   FairSpec   the same run with the progress the event loop guarantees   *)
(*   SpecBatch  the batch driver main() of run_scraper.py                  *)
(*   FairBatch  the batch driver with the event loop's scheduling          *)
(*   SpecFn     the pure functions of scraper.py and parsing.py, each       *)
(*              applied once to an input drawn from a bounded set           *)
(*   SpecGrab   the response capture of one page and its _grab tasks        *)
(*   SpecNet    net_bucket over the pages of a browser-mode run             *)
(*                                                                         *)
(* The model covers runs with require_distressed and require_no_hoa off    *)
(* (the defaults of the command line).  A URL is modelled by the number of *)
(* next links followed to reach it.                                        *)
(***************************************************************************)
EXTENDS Integers, Sequences, FiniteSets, TLC

\* ------------------------------------------------------------------ bounds
MaxPages == 2          \* largest max_pages argument explored
MaxCards == 2          \* most items (script listings, cards, captured response
                       \* bodies) the site serves during one run
NumMarkets == 6        \* markets handed to the batch driver
MinHi == 2             \* the non-zero threshold explored (values 1 and 3 straddle it)
MaxItems == 2          \* most nodes in one JSON body, most scripts in one page
MaxStr == 4            \* longest text handed to the numeric coercions
MaxWords == 2          \* most words in a status value or a card text
MaxParams == 2         \* most parameters in the query of a URL
MaxAddr == 4           \* longest address text handed to _normalize_property_from_dict
MaxEls == 2            \* most link-bearing elements in the markup of a card
MaxResp == 3           \* most responses one page emits while the capture is watched
MaxBurst == 21         \* most bodies one page adds to net_bucket (one more than NetSlice)
MaxLate == 1           \* most bodies of a page whose task outlives the page's harvest

\* -------------------------------------------------------- program constants
CONCURRENCY == 5
NetSlice == 20
FinalNetSlice == 40

None == -1             \* Python None for a numeric field
NoStr == ""            \* Python None / "" for a text field (both falsy)
PageUrl == "https://www.estately.com/search"
                       \* the search page's own URL, used when a candidate has no href

\* urljoin(base, href) for a base on the site: a path is put behind the
\* site's origin, an absolute URL is returned as it is.
RelPaths == {"/a", "/c", "/j"}
UrlJoin(base, href) ==
  IF href = "/a" THEN "https://www.estately.com/a"
  ELSE IF href = "/c" THEN "https://www.estately.com/c"
  ELSE IF href = "/j" THEN "https://www.estately.com/j"
  ELSE href

\* ------------------------------------------------------------- candidates
\* What the extractors hand to collect_estately.  A candidate is the dict
\* returned by parse_card (DOM) or built by _extract_listings_from_json_blob /
\* _extract_estately_map_properties (JSON), together with the card text's
\* status tokens (text_neg: the card text contains a NEG_STATUS token).  The
\* href of a DOM card is what _extract_href returns, urljoin(site, link); the
\* href of a JSON listing is the string found in the JSON.
\*   address NoStr: no address;  cs: city and state both present.
\*   8 is a card parse_card raises on, 9 a captured body the targeted parser
\*   raises on (StrAddrCard, StrAddrBody below): they never become a dict.
\*   10 is a card whose only address is a JSON-LD streetAddress of white
\*   space: parse_card keeps it, _has_min_address does not count it.
Blank == " "
DomIds == (1..4) \cup {8, 10}
JsonIds == 5..7
Extracted ==
  <<
    \* 1: DOM card with everything
    [address |-> "A", cs |-> TRUE,  price |-> 3,    beds |-> 3,    sqft |-> 3,
     href |-> UrlJoin("https://www.estately.com/", "/a"), text_neg |-> FALSE],
    \* 2: parse_card returned {} (no address found)
    [address |-> NoStr, cs |-> FALSE, price |-> None, beds |-> None, sqft |-> None, href |-> NoStr, text_neg |-> FALSE],
    \* 3: weak DOM card: address only, no numbers, no link
    [address |-> "B", cs |-> FALSE, price |-> None, beds |-> None, sqft |-> None, href |-> NoStr, text_neg |-> FALSE],
    \* 4: DOM card whose text says "pending"
    [address |-> "C", cs |-> TRUE,  price |-> 3,    beds |-> 3,    sqft |-> 3,
     href |-> UrlJoin("https://www.estately.com/", "/c"), text_neg |-> TRUE],
    \* 5: JSON listing with the identity key of candidate 1
    [address |-> "A", cs |-> TRUE,  price |-> 3,    beds |-> 3,    sqft |-> 3,    href |-> "/a", text_neg |-> FALSE],
    \* 6: JSON listing with city+state but no street, beds/sqft unknown
    [address |-> NoStr, cs |-> TRUE,  price |-> 3,    beds |-> None, sqft |-> None, href |-> "/j", text_neg |-> FALSE],
    \* 7: JSON listing with known small numbers
    [address |-> "D", cs |-> TRUE,  price |-> 1,    beds |-> 1,    sqft |-> 1,    href |-> NoStr, text_neg |-> FALSE],
    \* 8, 9: no dict is produced
    [address |-> NoStr, cs |-> FALSE, price |-> None, beds |-> None, sqft |-> None, href |-> NoStr, text_neg |-> FALSE],
    [address |-> NoStr, cs |-> FALSE, price |-> None, beds |-> None, sqft |-> None, href |-> NoStr, text_neg |-> FALSE],
    \* 10: DOM card with a blank address, a link and known small numbers
    [address |-> Blank, cs |-> FALSE, price |-> 1,    beds |-> 1,    sqft |-> 1,
     href |-> UrlJoin("https://www.estately.com/", "/c"), text_neg |-> FALSE]
  >>

\* data.update(detail_data): a listing of the detail page carries every key
\* of the card's dict, so the enriched card is that listing.  EnrichedBy(j)
\* is card 10 after the update with JSON listing j.
EnrichedBy(j) == j + 6
EnrichedIds == {EnrichedBy(j) : j \in JsonIds}
Cand == Extracted \o [n \in 1..3 |-> Extracted[n + 4]]

\* Strictly increasing sequences of ids from S, at most n long: the candidates
\* one harvest step finds, in document order.
IncSeqs(S, n) ==
  {s \in UNION {[1..k -> S] : k \in 0..n} : \A i \in 1..(Len(s) - 1) : s[i] < s[i + 1]}

DomSeqs == IncSeqs(DomIds, MaxCards)
JsonSeqs == IncSeqs(JsonIds, MaxCards)
\* A captured response body, as the listings extraction gets out of it
\* (<<>>: not JSON, or no listing-shaped node).
Blobs == IncSeqs(JsonIds, 1) \cup {<<9>>}
BlobSeqs == UNION {[1..k -> Blobs] : k \in 0..MaxCards}

VARIABLES
  \* ---- collect_estately: arguments and module state
  playwright,    \* _PLAYWRIGHT_AVAILABLE and launch_browser/new_page defined
  store,         \* _properties_col is not None
  max_pages, min_price, min_beds, min_sqft,
  \* ---- collect_estately: locals
  cpc,           \* position in collect_estately
  page_idx, url,
  results, mongo_docs, seen,
  net_bucket, dom_cards,
  pending,       \* "none" | "return" | "raise": what the finally block completes
  browser,       \* "none" | "open" | "closed" | "close_raised"
  closeCalls,    \* calls of browser.close() made by this run
  driver,        \* the Playwright driver the finally block found attached to the
                 \*   browser: "none" | "running" | "stopped"
  \* ---- collect_estately: what the caller and the collaborators observe
  outcome,       \* "running" | "returned" | "raised"
  returned,      \* the list handed to the caller
  dbWrite,       \* "none" | "skipped" | "ok" | "failed": the bulk write of this run
  navFailed,     \* page.goto raised PWError in this run
  browserOps,    \* calls made on the page object
  pagesVisited,  \* search-result pages requested (navigation or HTTP)
  noNext,        \* a visited page offered no next link
  lastFetch,     \* url of the last plain-HTTP fetch, None if there was none
  served,        \* items the site has served so far in this run
  parseFailed,   \* an extractor raised on a card or a body during this run
  last,          \* the latest harvest: its path and what the fetched page held
                 \*   (inl: listings in scripts or captured bodies, dom: cards,
                 \*   a card enriched from its detail page as the enriched dict)
  \* ---- main() of run_scraper.py
  task,          \* per market: position of its bound_scrape task
  sem,           \* value of the asyncio.Semaphore
  taskOut,       \* per market: what its task returned
  gathered,      \* result of asyncio.gather, <<>> until it completes
  \* ---- one call of a pure function
  fn,            \* the function called, "none" outside SpecFn
  fin,           \* its argument
  fout,          \* [called, raised, val]: whether the call was made, and how it ended
  \* ---- _capture_json_responses and the _grab tasks of one page
  rpc,           \* position of the caller: "register" | "render" | "content"
  tasks,         \* one record per observed response: the response and its task
  bucket,        \* the list the bodies are appended to (indices into tasks)
  \* ---- net_bucket over the pages of a browser-mode run
  npc,           \* position in the page loop
  npage,         \* the page being processed, from 1
  nbucket,       \* net_bucket: per body the page whose response it is and its kind
  inflight,      \* bodies whose _grab task has not finished
  ncards,        \* the first snapshot of the page holds cards
  nresults,      \* results is not empty
  passed         \* the latest harvest of net_bucket: where, and what it extracted from

cvars == <<playwright, store, max_pages, min_price, min_beds, min_sqft, cpc,
           page_idx, url, results, mongo_docs, seen, net_bucket, dom_cards,
           pending, browser, closeCalls, driver, outcome, returned, dbWrite,
           navFailed, browserOps, pagesVisited, noNext, lastFetch, served,
           parseFailed, last>>
bvars == <<task, sem, taskOut, gathered>>
fvars == <<fn, fin, fout>>
gvars == <<rpc, tasks, bucket>>
nvars == <<npc, npage, nbucket, inflight, ncards, nresults, passed>>
vars == <<cvars, bvars, fvars, gvars, nvars>>

\* ---------------------------------------------------------- pure functions
\* How a call ended: the value returned, or an exception left the function.
Returned(v) == [called |-> TRUE, raised |-> FALSE, val |-> v]
Raised == [called |-> TRUE, raised |-> TRUE, val |-> <<>>]

\* ---- JSON bodies
\* A node of a decoded JSON body, as far as the extractors look at it:
\*   isdict  the node is an object (else a string, number or array element)
\*   ashape  what sits under "address": nothing, an object, a string, a
\*           non-empty array or a non-zero number
\*   street  the street text found under the keys the extractor reads (inside
\*           the address object, the address string itself, or a sibling key)
\*   cs      city and state are present;  price: a price key is present
AddrShapes == {"absent", "obj", "str", "list", "num"}
Nodes ==
  {[isdict |-> FALSE, ashape |-> "absent", street |-> NoStr, cs |-> FALSE, price |-> None]}
  \cup {[isdict |-> TRUE, ashape |-> a, street |-> st, cs |-> c, price |-> pr] :
          a \in {"absent", "obj", "str"}, st \in {NoStr, "A"}, c \in BOOLEAN, pr \in {None, 3}}
  \cup {[isdict |-> TRUE, ashape |-> a, street |-> NoStr, cs |-> TRUE, price |-> pr] :
          a \in {"list", "num"}, pr \in {None, 3}}
NodeSeqs == UNION {[1..k -> Nodes] : k \in 0..MaxItems}
\* kind: "text" is not JSON, "object" decodes to a dict, "list" to an array
Bodies == [map_url : BOOLEAN, kind : {"text", "object", "list"}, items : NodeSeqs]
\* <script> contents: one decoded object each, or text json.loads rejects
Scripts == [map_url : {FALSE}, kind : {"text", "object"},
            items : UNION {[1..k -> Nodes] : k \in 0..1}]
ScriptSeqs == UNION {[1..k -> Scripts] : k \in 0..MaxItems}

Listing(n) == [address |-> n.street, cs |-> n.cs, price |-> n.price]

\* _extract_estately_map_properties, loop body: addr_obj = it.get("address") or {}
\* followed by addr_obj.get(...), outside any try: a truthy value that is not
\* a dict has no .get
MapItemRaises(it) ==
  /\ it.isdict
  /\ \/ it.ashape = "str" /\ it.street # NoStr
     \/ it.ashape \in {"list", "num"}

\* if not (street and (city or state)) or price is None: continue
MapItemKept(it) == it.isdict /\ it.street # NoStr /\ it.cs /\ it.price # None

RECURSIVE MapItems(_, _)
MapItems(items, out) ==
  IF items = <<>> THEN Returned(out)
  ELSE LET it == Head(items)
       IN IF MapItemRaises(it) THEN Raised
          ELSE MapItems(Tail(items), IF MapItemKept(it) THEN Append(out, Listing(it)) ELSE out)

\* _extract_estately_map_properties(url, text)
ExtractEstatelyMapProperties(body) ==
  IF ~body.map_url \/ body.kind # "list"
  THEN Returned(<<>>)
  ELSE MapItems(body.items, <<>>)

\* _addr_from_any(node) is not None: address or (city and state)
AddrFromAny(n) ==
  /\ n.isdict
  /\ (n.street # NoStr \/ n.ashape \in {"list", "num"} \/ n.cs)

\* _extract_listings_from_json_blob, loop body: with an address and a price,
\* key = ((addr.get("address") or "").strip().lower(), ...) is computed
\* outside any try: an array or a number has no .strip
WalkNodeRaises(n) ==
  /\ AddrFromAny(n)
  /\ n.price # None
  /\ n.ashape \in {"list", "num"}

RECURSIVE WalkNodes(_, _, _)
WalkNodes(items, out, seen_keys) ==
  IF items = <<>> THEN Returned(out)
  ELSE LET n == Head(items)
           key == <<n.street, n.price>>
       IN IF ~AddrFromAny(n) \/ n.price = None THEN WalkNodes(Tail(items), out, seen_keys)
          ELSE IF WalkNodeRaises(n) THEN Raised
          ELSE IF key \in seen_keys THEN WalkNodes(Tail(items), out, seen_keys)
          ELSE WalkNodes(Tail(items), Append(out, Listing(n)), seen_keys \cup {key})

\* _extract_listings_from_json_blob(text)
ExtractListingsFromJsonBlob(body) ==
  IF body.kind = "text" THEN Returned(<<>>) ELSE WalkNodes(body.items, <<>>, {})

\* _mine_inline_scripts(html): every script that decodes is walked inside
\* try/except: pass
RECURSIVE MineInlineScripts(_)
MineInlineScripts(scripts) ==
  IF scripts = <<>> THEN Returned(<<>>)
  ELSE LET one == ExtractListingsFromJsonBlob(Head(scripts))
           rest == MineInlineScripts(Tail(scripts))
       IN Returned((IF one.raised THEN <<>> ELSE one.val) \o rest.val)

\* ---- numbers and text
\* A text is a sequence of one-character strings.  A float is kept as the
\* exact decimal m * 10^e with m not divisible by 10 (Unknown: Python None).
Unknown == [known |-> FALSE, m |-> 0, e |-> 0]
RECURSIVE Norm(_, _)
Norm(m, e) ==
  IF m = 0 THEN [known |-> TRUE, m |-> 0, e |-> 0]
  ELSE IF m % 10 = 0 THEN Norm(m \div 10, e + 1)
  ELSE [known |-> TRUE, m |-> m, e |-> e]
Scale(v, k) == IF v.known THEN Norm(v.m, v.e + k) ELSE v

DigitChars == <<"0", "1", "2", "3", "4", "5", "6", "7", "8", "9">>
Digits == {DigitChars[i] : i \in 1..10}
DigitVal(c) == (CHOOSE i \in 1..10 : DigitChars[i] = c) - 1
RECURSIVE IntOf(_)
IntOf(ds) ==
  IF ds = <<>> THEN 0
  ELSE IntOf(SubSeq(ds, 1, Len(ds) - 1)) * 10 + DigitVal(ds[Len(ds)])

\* The characters the explored texts are made of, and the spec's own examples
Alphabet == {"2", "5", "0", ".", ",", "k", "m", "$"}
Samples ==
  { <<"$", "1", ",", "2", "3", "4", ",", "0", "0", "0">>,
    <<"1", ",", "2", "3", "4", ".", "5", "k">> }
Texts == UNION {[1..k -> Alphabet] : k \in 0..MaxStr} \cup Samples
PyNone == [type |-> "none", num |-> Unknown, chars |-> <<>>]
PyNum(v) == [type |-> "num", num |-> v, chars |-> <<>>]
PyStr(cs) == [type |-> "str", num |-> Unknown, chars |-> cs]
PyValues == {PyNone} \cup {PyNum(Norm(n, 0)) : n \in {0, 3, 2500}} \cup {PyStr(t) : t \in Texts}
PyTexts == {PyNone} \cup {PyStr(t) : t \in Texts}

\* float(s) for s made of digits and dots: a ValueError unless there is at
\* most one dot and at least one digit
PyFloat(s) ==
  LET dots == SelectSeq(s, LAMBDA c : c = ".")
      ds == SelectSeq(s, LAMBDA c : c \in Digits)
      dot == CHOOSE i \in 1..(Len(s) + 1) : i = Len(s) + 1 \/ s[i] = "."
  IN IF Len(dots) > 1 \/ ds = <<>> THEN Unknown
     ELSE Norm(IntOf(ds), 0 - (IF dot > Len(s) THEN 0 ELSE Len(s) - dot))

\* _coerce_float(x)
CoerceFloat(x) ==
  IF x.type = "none" THEN Unknown
  ELSE IF x.type = "num" THEN x.num
  ELSE LET s == SelectSeq(x.chars, LAMBDA c : c \in Digits \cup {"."})
       IN IF s = <<>> THEN Unknown ELSE PyFloat(s)

\* Length of the longest run of characters of S in cs that starts at i
RECURSIVE RunLen(_, _, _)
RunLen(cs, i, S) == IF i > Len(cs) \/ cs[i] \notin S THEN 0 ELSE 1 + RunLen(cs, i + 1, S)

\* _first_price(s): the first match of
\*   (\d{1,3}(?:[,\d]{0,3})*(?:\.\d+)?)(?:\s*([kKmMbB]))?
\* is a digit, the run of digits and commas after it, a dot with the digits
\* after it if there is at least one, and a suffix letter right behind.
FirstPrice(x) ==
  IF x.type # "str" \/ \A i \in 1..Len(x.chars) : x.chars[i] \notin Digits THEN Unknown
  ELSE LET cs == x.chars
           start == CHOOSE i \in 1..Len(cs) : cs[i] \in Digits /\ \A j \in 1..(i - 1) : cs[j] \notin Digits
           whole == RunLen(cs, start, Digits \cup {","})
           afterWhole == start + whole
           frac == IF afterWhole <= Len(cs) /\ cs[afterWhole] = "."
                   THEN RunLen(cs, afterWhole + 1, Digits) ELSE 0
           afterNum == IF frac > 0 THEN afterWhole + 1 + frac ELSE afterWhole
           suf == IF afterNum <= Len(cs) THEN cs[afterNum] ELSE ""
           ds == SelectSeq(SubSeq(cs, start, afterWhole - 1), LAMBDA c : c \in Digits)
                 \o (IF frac > 0 THEN SubSeq(cs, afterWhole + 1, afterWhole + frac) ELSE <<>>)
           val == Norm(IntOf(ds), 0 - frac)
       IN IF suf = "k" THEN Scale(val, 3)
          ELSE IF suf = "m" THEN Scale(val, 6)
          ELSE IF suf = "b" THEN Scale(val, 9)
          ELSE val

\* ---- status
\* A status value and a card text are sequences of lower-case words; a token
\* is a sequence of words, found in a text when it occurs contiguously.
NEG_STATUS ==
  { <<"pending">>, <<"sold">>, <<"contingent">>, <<"off", "market">>, <<"off-market">>,
    <<"closed">>, <<"withdrawn">>, <<"canceled">>, <<"leased">>, <<"rented">>,
    <<"temporarily", "off", "market">> }
POS_STATUS_TOKENS ==
  { <<"for", "sale">>, <<"active">>, <<"active", "listing">>, <<"on", "market">>, <<"on-market">> }
INACTIVE_TOKENS ==
  { <<"pending">>, <<"under", "contract">>, <<"contingent">>, <<"off_market">>, <<"sold">>,
    <<"coming", "soon">>, <<"withdrawn">>, <<"canceled">>, <<"expired">> }
ACTIVE_TOKENS ==
  { <<"active">>, <<"for_sale">>, <<"for", "sale">>, <<"active-listing">>, <<"on_market">>,
    <<"on", "market">> }

\* tok in blob
Contains(ws, tok) ==
  \E i \in 1..(Len(ws) - Len(tok) + 1) : SubSeq(ws, i, i + Len(tok) - 1) = tok
AnyIn(ws, toks) == \E tok \in toks : Contains(ws, tok)

Vocabulary == {"pending", "leased", "active", "off", "market", "new"}
WordSeqs == UNION {[1..k -> Vocabulary] : k \in 0..MaxWords}
Absent == [kind |-> "absent", b |-> FALSE, words |-> <<>>]
BoolVal(b) == [kind |-> "bool", b |-> b, words |-> <<>>]
StrVal(ws) == [kind |-> "str", b |-> FALSE, words |-> ws]
\* A candidate dict as the status helpers read it:
\*   status  the first value that is not None under the keys status,
\*           listingStatus, propertyStatus, marketStatus, statusText, saleType,
\*           listing_type
\*   flag    the first value that is not None under onMarket, isActive, forSale
\*   text    the card text passed along
StatusInputs ==
  [status : {Absent} \cup {StrVal(ws) : ws \in WordSeqs},
   flag : {Absent, BoolVal(TRUE), BoolVal(FALSE)},
   text : WordSeqs]

\* _extract_status(d, text)[1]
ExtractStatusActive(d) ==
  LET raw == IF d.status.kind # "absent" THEN d.status ELSE d.flag
      \* blob = " ".join([s, text.lower()]).strip(); str(raw) of nothing is ""
      blob == raw.words \o d.text
  IN IF raw.kind = "bool" THEN raw.b
     ELSE IF AnyIn(blob, NEG_STATUS) THEN FALSE
     ELSE IF AnyIn(blob, POS_STATUS_TOKENS) THEN TRUE
     ELSE TRUE

\* _looks_active_for_sale(d): reads the first truthy status value only
LooksActiveForSale(d) ==
  LET val == IF d.status.kind = "str" THEN d.status.words ELSE <<>>
  IN IF val = <<>> THEN TRUE
     ELSE IF AnyIn(val, INACTIVE_TOKENS) THEN FALSE
     ELSE IF AnyIn(val, ACTIVE_TOKENS) THEN TRUE
     ELSE TRUE

\* ---- URLs
\* A URL as urlparse splits it; the query is the sequence of its key=value
\* parameters, "" being a blank value.
Params == {<<k, v>> : k \in {"a", "b"}, v \in {"", "1", "2"}}
Queries == UNION {[1..n -> Params] : n \in 0..MaxParams}
Url(scheme, netloc, path, query) ==
  [scheme |-> scheme, netloc |-> netloc, path |-> path, query |-> query]
CanonicalUrls == {Url("https", "www.estately.com", "/TX/Houston", q) : q \in Queries}
OriginalUrls == {Url("http", "estately.com", "/tx/houston", q) : q \in Queries}

\* d[k] = v on a dict kept as its items in insertion order
DictPut(d, k, v) ==
  IF \E i \in 1..Len(d) : d[i][1] = k
  THEN [i \in 1..Len(d) |-> IF d[i][1] = k THEN <<k, v>> ELSE d[i]]
  ELSE Append(d, <<k, v>>)
RECURSIVE DictUpdate(_, _)
DictUpdate(d, pairs) ==
  IF pairs = <<>> THEN d
  ELSE DictUpdate(DictPut(d, Head(pairs)[1], Head(pairs)[2]), Tail(pairs))
\* parse_qsl(query): keep_blank_values is off, a parameter with a blank value
\* is left out
ParseQsl(query) == SelectSeq(query, LAMBDA kv : kv[2] # "")

\* reattach_query(canonical_url, original_url)
ReattachQuery(c, o) ==
  LET c_q == DictUpdate(<<>>, ParseQsl(c.query))
      o_q == DictUpdate(<<>>, ParseQsl(o.query))
      merged == DictUpdate(c_q, o_q)
  IN Url(c.scheme, c.netloc, c.path, merged)

\* ---- listing cards
\* The JSON-LD block of a card as _jsonld_from_card merges it (NoLd: none):
\*   ashape  what sits under "address" ("null": the key holds null)
\*   street  streetAddress of the address object
\*   price   offers.price;  beds, baths, sqft: numberOfRooms,
\*   numberOfBathroomsTotal, floorSize
NoLd == [present |-> FALSE, ashape |-> "absent", street |-> NoStr, price |-> None,
         beds |-> None, baths |-> None, sqft |-> None]
LdBlocks ==
  {NoLd} \cup
  {[present |-> TRUE, ashape |-> a.shape, street |-> a.street, price |-> pr,
    beds |-> bd, baths |-> bt, sqft |-> sq] :
      a \in {[shape |-> "absent", street |-> NoStr], [shape |-> "obj", street |-> NoStr],
             [shape |-> "obj", street |-> "S"], [shape |-> "str", street |-> NoStr],
             [shape |-> "null", street |-> NoStr]},
      pr \in {None, 4}, bd \in {None, 4}, bt \in {None, 4}, sq \in {None, 4}}

\* A card: what the selectors and regular expressions of parse_card find in
\* its markup (href: the absolute URL _extract_href returns), and its JSON-LD.
DomNums == {None, 0, 3}
Cards ==
  [address : {NoStr, "A"}, price : DomNums, beds : DomNums, baths : DomNums,
   sqft : DomNums, href : {NoStr, "https://www.estately.com/a"}, ld : LdBlocks]

EmptyDict ==
  [empty |-> TRUE, address |-> NoStr, price |-> None, beds |-> None, baths |-> None,
   sqft |-> None, href |-> NoStr, weak |-> FALSE]

\* Mutant of Backfill: the structured-data value wins when there is one.
BackfillLdFirst(domVal, ldVal) == IF ldVal # None THEN ldVal ELSE domVal

\* if out.get(field) is None: out[field] = _qv_value(ld value)
Backfill(domVal, ldVal) == IF domVal = None THEN ldVal ELSE domVal

\* parse_card(card)
ParseCard(card) ==
  LET ld == card.ld
      \* addr = ld.get("address") if it is a dict else ld.get("address", {});
      \* addr.get("streetAddress") follows, outside any try
      ldRaises == ld.present /\ ld.ashape \in {"str", "null"}
      \* street not in out["address"]: the streets here are one token long
      address == IF ld.present /\ ld.street # NoStr /\ (card.address = NoStr \/ ld.street # card.address)
                 THEN ld.street ELSE card.address
      price == IF ld.present THEN Backfill(card.price, ld.price) ELSE card.price
      beds == IF ld.present THEN Backfill(card.beds, ld.beds) ELSE card.beds
      baths == IF ld.present THEN Backfill(card.baths, ld.baths) ELSE card.baths
      sqft == IF ld.present THEN Backfill(card.sqft, ld.sqft) ELSE card.sqft
  IN IF ldRaises THEN Raised
     ELSE IF address = NoStr THEN Returned(EmptyDict)
     ELSE Returned([empty |-> FALSE, address |-> address, price |-> price, beds |-> beds,
                    baths |-> baths, sqft |-> sqft, href |-> card.href,
                    weak |-> (price \in {None, 0} /\ card.href = NoStr)])

\* ---- the address and location of a card (parsing.py)
\* An address text is the sequence of its words; NoWords: the selectors found
\* no text, or the JSON-LD block has no such field.
NoWords == <<>>
DomAddrs == {NoWords, <<"Main">>, <<"12", "Main">>, <<"12", "Main", "Austin">>}
LdStreets == {NoWords, <<"12", "Main">>, <<"Main", "12">>, <<"9", "Oak">>}
\* What the selectors find in the markup (address, city, state, zip) and the
\* fields of the address object of the JSON-LD block (ld; present: the card
\* has a block).
LocCards ==
  {c \in [address : DomAddrs, city : {NoStr, "dc"}, state : {NoStr, "ds"}, zip : {NoStr, "dz"},
          ld : [present : BOOLEAN, street : LdStreets, city : {NoStr, "lc"},
                state : {NoStr, "ls"}, zip : {NoStr, "lz"}]] :
     ~c.ld.present => c.ld = [present |-> FALSE, street |-> NoWords, city |-> NoStr,
                              state |-> NoStr, zip |-> NoStr]}

\* Mutant of AddressOf: a street in the structured data always replaces the
\* address of the markup.
AddressOfLdFirst(dom, street) == IF street # NoWords THEN street ELSE dom

\* if street and (not out.get("address") or street not in out.get("address", "")):
\*     out["address"] = street
AddressOf(dom, street) ==
  IF street # NoWords /\ (dom = NoWords \/ ~Contains(dom, street)) THEN street ELSE dom

\* if city_ld: out["city"] = out.get("city") or city_ld
LocationOf(dom, ld) == IF ld # NoStr THEN (IF dom # NoStr THEN dom ELSE ld) ELSE dom

\* parse_card, as far as address, city, state and zip go
CardLocation(c) ==
  LET address == IF c.ld.present THEN AddressOf(c.address, c.ld.street) ELSE c.address
  IN IF address = NoWords
     THEN [empty |-> TRUE, address |-> NoWords, city |-> NoStr, state |-> NoStr, zip |-> NoStr]
     ELSE [empty |-> FALSE, address |-> address,
           city |-> IF c.ld.present THEN LocationOf(c.city, c.ld.city) ELSE c.city,
           state |-> IF c.ld.present THEN LocationOf(c.state, c.ld.state) ELSE c.state,
           zip |-> IF c.ld.present THEN LocationOf(c.zip, c.ld.zip) ELSE c.zip]

\* ---- the link of a card (parsing.py)
\* The markup of a card, as far as links go: its elements that carry a link,
\* in document order.  An element is an anchor with an href attribute or an
\* element with a data-href attribute; val is the attribute's value; ext tells
\* whether the element lies inside a fragment a browser extension injected:
\* "plasmo" (a plasmo-csui element), "id" (an element whose id starts with
\* jobright-helper), "class" (an element whose class holds jobright-helper),
\* "none".  The cards explored hold no script element.
LinkVals == {"/listings/1", "/x", "https://o.example/x"}
LinkEls == [kind : {"anchor", "virtual"}, val : LinkVals, ext : {"none", "plasmo", "id", "class"}]
Markups == UNION {[1..k -> LinkEls] : k \in 0..MaxEls}

\* any(p in href for p in ("/listings/", "/home/", "/homes/", "/property/"))
ListingPath(v) == v = "/listings/1"
\* href=\"(\/[A-Za-z0-9_\-\/]+)\": the value starts with a slash
RegexHref(v) == v \in {"/listings/1", "/x"}
\* urljoin("https://www.estately.com/", v)
JoinEstately(v) ==
  CASE v = "/listings/1" -> "https://www.estately.com/listings/1"
    [] v = "/x" -> "https://www.estately.com/x"
    [] OTHER -> v

\* The elements of a markup with their position in the card as it was given.
Placed(m) == [i \in 1..Len(m) |-> [pos |-> i, kind |-> m[i].kind, val |-> m[i].val, ext |-> m[i].ext]]

\* _strip_extension_ui: decompose what the selector
\* "plasmo-csui, #jobright-helper-plugin, [id^='jobright-helper']" finds
StripExtensionUi(els) == SelectSeq(els, LAMBDA e : e.ext \notin {"plasmo", "id"})

\* _in_extension_ui: the element or a parent is plasmo-csui, or has an id
\* starting with, or a class holding, jobright-helper
InExtensionUi(e) == e.ext # "none"

NoLink == [found |-> FALSE, pos |-> 0, href |-> NoStr]
LinkOf(e) == [found |-> TRUE, pos |-> e.pos, href |-> JoinEstately(e.val)]
FirstOr(els, other) == IF els = <<>> THEN other ELSE LinkOf(Head(els))

\* _first_valid_anchor: the first anchor outside extension UI with a listing
\* path, else the first anchor outside extension UI
FirstValidAnchor(els) ==
  LET anchors == SelectSeq(els, LAMBDA e : e.kind = "anchor" /\ ~InExtensionUi(e))
  IN FirstOr(SelectSeq(anchors, LAMBDA e : ListingPath(e.val)), FirstOr(anchors, NoLink))

\* _extract_href: the anchor, else the first virtual-link element outside
\* extension UI, else the first href="/..." in str(card)
ExtractHref(els) ==
  LET anchor == FirstValidAnchor(els)
      virtual == FirstOr(SelectSeq(els, LAMBDA e : e.kind = "virtual" /\ ~InExtensionUi(e)), NoLink)
      scraped == FirstOr(SelectSeq(els, LAMBDA e : RegexHref(e.val)), NoLink)
  IN IF anchor.found THEN anchor
     ELSE IF virtual.found THEN virtual
     ELSE scraped

\* parse_card: _strip_extension_ui(card) ... out["href"] = _extract_href(card)
CardHref(m) == ExtractHref(StripExtensionUi(Placed(m)))

\* ---- the full-address key of a document (scraper.py)
\* Texts are sequences of characters.
AddrAlphabet == {"a", "B", " "}
AddrTexts == UNION {[1..k -> AddrAlphabet] : k \in 0..MaxAddr}
\* The candidates handed to _normalize_property_from_dict, as far as the
\* address goes (<<>>: the key is missing, None or "").
AddrDicts == [address : AddrTexts, city : {<<>>, <<"c">>}, state : {<<>>, <<"t">>},
              zip : {<<>>, <<"7">>}]

\* str.lower(), str.upper()
LowerChar(ch) == CASE ch = "B" -> "b" [] ch = "C" -> "c" [] ch = "T" -> "t" [] OTHER -> ch
UpperChar(ch) == CASE ch = "a" -> "A" [] ch = "b" -> "B" [] ch = "c" -> "C" [] ch = "t" -> "T" [] OTHER -> ch
Lower(t) == [i \in 1..Len(t) |-> LowerChar(t[i])]
Upper(t) == [i \in 1..Len(t) |-> UpperChar(t[i])]

\* str.strip(chars): drop the leading and trailing characters that are in chars
RECURSIVE LStrip(_, _)
LStrip(t, chars) == IF t # <<>> /\ Head(t) \in chars THEN LStrip(Tail(t), chars) ELSE t
RECURSIVE RStrip(_, _)
RStrip(t, chars) ==
  IF t # <<>> /\ t[Len(t)] \in chars THEN RStrip(SubSeq(t, 1, Len(t) - 1), chars) ELSE t
StripChars(t, chars) == RStrip(LStrip(t, chars), chars)
\* str.strip()
Strip(t) == StripChars(t, {" "})

\* sep.join(p for p in parts if p)
RECURSIVE JoinNonEmpty(_, _)
JoinNonEmpty(sep, parts) ==
  LET ps == SelectSeq(parts, LAMBDA q : q # <<>>)
  IN IF ps = <<>> THEN <<>>
     ELSE IF Len(ps) = 1 THEN ps[1]
     ELSE ps[1] \o sep \o JoinNonEmpty(sep, Tail(ps))

\* _normalize_property_from_dict: fullAddress and fullAddress_ci
NormalizePropertyFromDict(d) ==
  LET address == Strip(d.address)
      city == Strip(d.city)
      state == Upper(Strip(d.state))
      zipc == Strip(d.zip)
      loc_tail == Strip(JoinNonEmpty(<<" ">>, <<state, zipc>>))
      tail == IF city # <<>> \/ loc_tail # <<>>
              THEN JoinNonEmpty(<<",", " ">>, <<city, loc_tail>>) ELSE <<>>
      full_addr == StripChars(JoinNonEmpty(<<",", " ">>, <<address, tail>>), {",", " "})
  IN [fullAddress |-> full_addr, fullAddress_ci |-> Lower(full_addr), address |-> address]

\* ------------------------------------------------------- scraper.py helpers
\* Candidate 8: a card whose JSON-LD block gives the address as a string.
StrAddrCard ==
  [address |-> "A", price |-> 3, beds |-> 3, baths |-> 3, sqft |-> 3,
   href |-> "https://www.estately.com/a",
   ld |-> [present |-> TRUE, ashape |-> "str", street |-> NoStr, price |-> None,
           beds |-> None, baths |-> None, sqft |-> None]]
\* Candidate 9: a /map/properties array whose element gives the address as a string.
StrAddrBody ==
  [map_url |-> TRUE, kind |-> "list",
   items |-> <<[isdict |-> TRUE, ashape |-> "str", street |-> "A", cs |-> TRUE, price |-> 3]>>]

\* data = parse_card(c) raises
ParseFails(i) == i = 8 /\ ParseCard(StrAddrCard).raised
\* h1 = _extract_estately_map_properties(url_b, txt_b) raises
ExtractFails(i) == i = 9 /\ ExtractEstatelyMapProperties(StrAddrBody).raised
Fails(i) == ParseFails(i) \/ ExtractFails(i)
AnyFails(ids) == \E n \in 1..Len(ids) : Fails(ids[n])
\* The items handled before the extractor raises
RECURSIVE Before(_)
Before(ids) ==
  IF ids = <<>> \/ Fails(Head(ids)) THEN <<>> ELSE <<Head(ids)>> \o Before(Tail(ids))

OrZero(x) == IF x = None THEN 0 ELSE x          \* Python: (x or 0)

\* Mutant of PassesMin: a known value one below the minimum still passes.
PassesMinOffByOne(val, minimum) == IF val = None THEN TRUE ELSE val >= minimum - 1

\* _passes_min: an unknown value passes, a known one must reach the minimum
PassesMin(val, minimum) == IF val = None THEN TRUE ELSE val >= minimum

\* (d.get("address") or "").strip() on a candidate's address
StripAddr(a) == IF a = Blank THEN NoStr ELSE a

\* _has_min_address
HasMinAddress(d) == StripAddr(d.address) # NoStr \/ d.cs

\* _extract_status(d, text)[1] for a candidate without a status field:
\* inactive exactly when the text carries a NEG_STATUS token.
ExtractStatus(d, textNeg) ==
  ExtractStatusActive([status |-> Absent, flag |-> Absent,
                       text |-> IF textNeg THEN <<"pending">> ELSE <<>>])

\* key = (d.get("address") or "", d.get("price") or 0)
KeyOf(d) == <<d.address, OrZero(d.price)>>

\* PropertyCard(address=..., listing_price=..., source_url=(d.get("href") or url));
\* cand remembers which candidate the record was built from.
PropertyCard(i) ==
  LET d == Cand[i]
  IN [address |-> d.address, price |-> d.price, beds |-> d.beds, sqft |-> d.sqft,
      source_url |-> IF d.href # NoStr THEN d.href ELSE PageUrl, cand |-> i]

\* _normalize_property_from_dict: keyed says fullAddress_ci is non-empty
NormalizeDoc(i) ==
  LET d == Cand[i]
  IN [address |-> StripAddr(d.address), price |-> d.price,
      source_url |-> IF d.href # NoStr THEN d.href ELSE PageUrl,
      keyed |-> (StripAddr(d.address) # NoStr \/ d.cs)]

\* The body every harvest loop ends with: skip a key already seen, otherwise
\* remember it and append the record and its document.
RECURSIVE Emit(_, _)
Emit(ids, acc) ==
  IF ids = <<>> THEN acc
  ELSE LET i == Head(ids)
           k == KeyOf(Cand[i])
       IN IF k \in acc.seen
          THEN Emit(Tail(ids), acc)
          ELSE Emit(Tail(ids), [results |-> Append(acc.results, PropertyCard(i)),
                                docs |-> Append(acc.docs, NormalizeDoc(i)),
                                seen |-> acc.seen \cup {k}])

\* harvested: the listings of every blob, targeted parser first, else the walker
\* (Flatten).  The page contents left to explore: script listings and cards, at most
\* MaxCards items over the run.
RECURSIVE Flatten(_)
Flatten(blobs) == IF blobs = <<>> THEN <<>> ELSE Head(blobs) \o Flatten(Tail(blobs))
JsonLeft(used) == {s \in JsonSeqs : served + used + Len(s) <= MaxCards}
DomLeft(used) == {s \in DomSeqs : served + used + Len(s) <= MaxCards}
BlobsLeft ==
  {b \in BlobSeqs : served + Len(b) <= MaxCards}

Harvest(path, inl, dom) == [path |-> path, inl |-> inl, dom |-> dom]

Acc(r, d, s) == [results |-> r, docs |-> d, seen |-> s]

\* ---- the filters of each harvest loop, in source order
\* _collect_http_only, inline loop
HttpInlineGate(d) ==
  /\ PassesMin(d.price, min_price)
  /\ PassesMin(d.beds, min_beds)
  /\ PassesMin(d.sqft, min_sqft)
  /\ HasMinAddress(d)
  /\ ExtractStatus(d, FALSE)

\* _harvest_from_detail(href, mins) on a detail page whose scripts hold the
\* listing detail (0: the fetch failed or the page holds none): the listing
\* when it has an address and passes the minimums, else None (0).
DetailPages == {0} \cup JsonIds
HarvestFromDetail(detail) ==
  IF /\ detail # 0
     /\ HasMinAddress(Cand[detail])
     /\ PassesMin(Cand[detail].price, min_price)
     /\ PassesMin(Cand[detail].beds, min_beds)
     /\ PassesMin(Cand[detail].sqft, min_sqft)
  THEN detail
  ELSE 0

\* if not _has_min_address(data) and data.get("href"): data.update(detail_data)
NeedsDetail(i) == ~Fails(i) /\ ~HasMinAddress(Cand[i]) /\ Cand[i].href # NoStr
Enrich(dom, detail) ==
  [n \in 1..Len(dom) |->
     IF NeedsDetail(dom[n]) /\ HarvestFromDetail(detail) # 0
     THEN EnrichedBy(HarvestFromDetail(detail))
     ELSE dom[n]]

\* _collect_http_only, DOM loop, on the cards after the enrichment
HttpDomGate(d) ==
  /\ PassesMin(d.price, min_price)
  /\ PassesMin(d.beds, min_beds)
  /\ PassesMin(d.sqft, min_sqft)
  /\ HasMinAddress(d)
  /\ ExtractStatus(d, d.text_neg)

\* collect_estately, inline loop of the navigation-failure fallback
FallbackInlineGate(d) ==
  /\ PassesMin(d.price, min_price)
  /\ PassesMin(d.beds, min_beds)
  /\ PassesMin(d.sqft, min_sqft)
  /\ ExtractStatus(d, FALSE)

\* collect_estately, network-capture loop
NetGate(d) ==
  /\ ~(OrZero(d.price) < min_price)
  /\ PassesMin(d.beds, min_beds)
  /\ PassesMin(d.sqft, min_sqft)
  /\ ExtractStatus(d, FALSE)

\* collect_estately, inline loop of browser mode, and the final net fallback
BrowserInlineGate(d) ==
  /\ PassesMin(d.price, min_price)
  /\ PassesMin(d.beds, min_beds)
  /\ PassesMin(d.sqft, min_sqft)
  /\ ExtractStatus(d, FALSE)

\* collect_estately, DOM loops of browser mode
BrowserDomGate(d) ==
  /\ ~(OrZero(d.price) < min_price)
  /\ ~(OrZero(d.beds) < min_beds)
  /\ ~(OrZero(d.sqft) < min_sqft)
  /\ ExtractStatus(d, d.text_neg)

\* Mutant of CollectHttpOnly: the DOM loop starts its documents afresh.
CollectHttpOnlyDomDocsOnly(inl, dom) ==
  LET a1 == Emit(SelectSeq(inl, LAMBDA i : HttpInlineGate(Cand[i])), Acc(<<>>, <<>>, {}))
      a2 == Emit(SelectSeq(dom, LAMBDA i : ~ParseFails(i) /\ HttpDomGate(Cand[i])),
                 Acc(a1.results, <<>>, {}))
  IN a2

\* _collect_http_only on fetched HTML whose scripts yield inl and whose
\* selectors yield the cards dom: two loops, each with its own seen set; a card
\* parse_card raises on is skipped (try/except: continue).
CollectHttpOnly(inl, dom) ==
  LET a1 == Emit(SelectSeq(inl, LAMBDA i : HttpInlineGate(Cand[i])), Acc(<<>>, <<>>, {}))
      a2 == Emit(SelectSeq(dom, LAMBDA i : ~ParseFails(i) /\ HttpDomGate(Cand[i])),
                 Acc(a1.results, a1.docs, {}))
  IN a2

\* The inline loop of the navigation-failure fallback (seen_fallback is local).
FallbackHarvest(inl) ==
  Emit(SelectSeq(inl, LAMBDA i : FallbackInlineGate(Cand[i])), Acc(results, mongo_docs, {}))

\* The last n elements of a sequence: s[-n:]
LastN(s, n) == IF Len(s) <= n THEN s ELSE SubSeq(s, Len(s) - n + 1, Len(s))


\* if (_properties_col is not None) and mongo_docs: bulk_write(ops) in try/except
BulkWrite(docs, writeOk) ==
  IF store /\ docs # <<>> /\ SelectSeq(docs, LAMBDA d : d.keyed) # <<>>
  THEN (IF writeOk THEN "ok" ELSE "failed")
  ELSE "skipped"

\* Mutant of NextIter: the page cap is off by one.
NextIterOffByOne(again, final) == IF page_idx + 1 <= max_pages THEN again ELSE final

\* for page_idx in range(max_pages): where the loop goes after this iteration
NextIter(again, final) == IF page_idx + 1 < max_pages THEN again ELSE final

\* ------------------------------------------------------ collect_estately
CollectInit ==
  /\ playwright \in BOOLEAN
  /\ store \in BOOLEAN
  /\ max_pages \in 1..MaxPages
  /\ min_price \in {0, MinHi}
  /\ min_beds \in {0, MinHi}
  /\ min_sqft \in {0, MinHi}
  /\ cpc = "start"
  /\ page_idx = 0
  /\ url = 0
  /\ results = <<>>
  /\ mongo_docs = <<>>
  /\ seen = {}
  /\ net_bucket = <<>>
  /\ dom_cards = <<>>
  /\ pending = "none"
  /\ browser = "none"
  /\ closeCalls = 0
  /\ driver = "none"
  /\ outcome = "running"
  /\ returned = <<>>
  /\ dbWrite = "none"
  /\ navFailed = FALSE
  /\ browserOps = 0
  /\ pagesVisited = 0
  /\ noNext = FALSE
  /\ lastFetch = None
  /\ served = 0
  /\ parseFailed = FALSE
  /\ last = Harvest("none", <<>>, <<>>)

args == <<playwright, store, max_pages, min_price, min_beds, min_sqft>>
\* What only the finally block touches
closing == <<closeCalls, driver>>

\* Entry: HTTP-only mode when Playwright is missing, else launch the browser,
\* open a page and register the response capture.
Start ==
  /\ cpc = "start"
  /\ IF playwright
     THEN /\ browser' = "open"
          /\ cpc' = "goto"
     ELSE /\ browser' = browser
          /\ cpc' = "http"
  /\ UNCHANGED <<args, closing, page_idx, url, results, mongo_docs, seen, net_bucket,
                 dom_cards, pending, outcome, returned, dbWrite, navFailed,
                 browserOps, pagesVisited, noNext, lastFetch, last, served, parseFailed>>

\* Mutant of HttpOnlyPage: a failed fetch throws away the records of the
\* earlier pages.
HttpOnlyPageDropOnFailure ==
  /\ cpc = "http"
  /\ pagesVisited' = pagesVisited + 1
  /\ lastFetch' = url
  /\ \/ \* fetch_html raised: ([], [], None)
        /\ cpc' = "persist_http"
        /\ last' = Harvest("http_failed", <<>>, <<>>)
        /\ results' = <<>>
        /\ mongo_docs' = <<>>
        /\ UNCHANGED <<url, page_idx, noNext, served, parseFailed>>
     \/ \E inl \in JsonLeft(0) : \E cards \in DomLeft(Len(inl)), next \in BOOLEAN :
        \E detail \in (IF \E n \in 1..Len(cards) : NeedsDetail(cards[n])
                       THEN DetailPages ELSE {0}) :
          LET dom == Enrich(cards, detail)
              page == CollectHttpOnly(inl, dom)
          IN /\ results' = results \o page.results
             /\ served' = served + Len(inl) + Len(dom)
             /\ last' = Harvest("http", inl, dom)
             /\ parseFailed' = (parseFailed \/ AnyFails(dom))
             /\ mongo_docs' = mongo_docs \o page.docs
             /\ IF next
                THEN /\ url' = url + 1
                     /\ page_idx' = page_idx + 1
                     /\ cpc' = NextIter("http", "persist_http")
                     /\ noNext' = noNext
                ELSE /\ cpc' = "persist_http"
                     /\ noNext' = TRUE
                     /\ UNCHANGED <<url, page_idx>>
  /\ UNCHANGED <<args, closing, seen, net_bucket, dom_cards, pending, browser, outcome,
                 returned, dbWrite, navFailed, browserOps>>

\* One iteration of the HTTP-only loop: _collect_http_only(url, ...), extend
\* the accumulators, stop without next_url, else move to the next page.
HttpOnlyPage ==
  /\ cpc = "http"
  /\ pagesVisited' = pagesVisited + 1
  /\ lastFetch' = url
  /\ \/ \* fetch_html raised: ([], [], None)
        /\ cpc' = "persist_http"
        /\ last' = Harvest("http_failed", <<>>, <<>>)
        /\ UNCHANGED <<results, mongo_docs, url, page_idx, noNext, served, parseFailed>>
     \/ \E inl \in JsonLeft(0) : \E cards \in DomLeft(Len(inl)), next \in BOOLEAN :
        \E detail \in (IF \E n \in 1..Len(cards) : NeedsDetail(cards[n])
                       THEN DetailPages ELSE {0}) :
          LET dom == Enrich(cards, detail)
              page == CollectHttpOnly(inl, dom)
          IN /\ results' = results \o page.results
             /\ served' = served + Len(inl) + Len(dom)
             /\ last' = Harvest("http", inl, dom)
             /\ parseFailed' = (parseFailed \/ AnyFails(dom))
             /\ mongo_docs' = mongo_docs \o page.docs
             /\ IF next
                THEN /\ url' = url + 1
                     /\ page_idx' = page_idx + 1
                     /\ cpc' = NextIter("http", "persist_http")
                     /\ noNext' = noNext
                ELSE /\ cpc' = "persist_http"
                     /\ noNext' = TRUE
                     /\ UNCHANGED <<url, page_idx>>
  /\ UNCHANGED <<args, closing, seen, net_bucket, dom_cards, pending, browser, outcome,
                 returned, dbWrite, navFailed, browserOps>>

\* HTTP-only mode: persist if possible, then return results.
PersistHttpOnly ==
  /\ cpc = "persist_http"
  /\ \E writeOk \in BOOLEAN : dbWrite' = BulkWrite(mongo_docs, writeOk)
  /\ outcome' = "returned"
  /\ returned' = results
  /\ cpc' = "done"
  /\ UNCHANGED <<args, closing, page_idx, url, results, mongo_docs, seen, net_bucket,
                 dom_cards, pending, browser, navFailed, browserOps,
                 pagesVisited, noNext, lastFetch, last, served, parseFailed>>

\* await page.goto(url): success goes on to render the page, PWError enters
\* the HTTP fallback.
Goto ==
  /\ cpc = "goto"
  /\ pagesVisited' = pagesVisited + 1
  /\ browserOps' = browserOps + 1
  /\ \/ /\ cpc' = "render"
        /\ navFailed' = navFailed
     \/ /\ cpc' = "fallback"
        /\ navFailed' = TRUE
  /\ UNCHANGED <<args, closing, page_idx, url, results, mongo_docs, seen, net_bucket,
                 dom_cards, pending, browser, outcome, returned, dbWrite,
                 noNext, lastFetch, last, served, parseFailed>>

\* except PWError: fetch_html(url); a second failure is re-raised, otherwise
\* the inline scripts of the fetched HTML are harvested.
FallbackFetch ==
  /\ cpc = "fallback"
  /\ lastFetch' = url
  /\ \/ /\ pending' = "raise"
        /\ cpc' = "finally"
        /\ last' = Harvest("fallback_failed", <<>>, <<>>)
        /\ UNCHANGED <<results, mongo_docs, served>>
     \/ \E inl \in JsonLeft(0) : \E dom \in DomLeft(Len(inl)) :
          LET a == FallbackHarvest(inl)
          IN /\ results' = a.results
             /\ served' = served + Len(inl) + Len(dom)
             /\ last' = Harvest("fallback", inl, dom)
             /\ mongo_docs' = a.docs
             /\ cpc' = "persist_fb"
             /\ pending' = pending
  /\ UNCHANGED <<args, closing, page_idx, url, seen, net_bucket, dom_cards, browser,
                 outcome, returned, dbWrite, navFailed, browserOps,
                 pagesVisited, noNext, parseFailed>>

\* Mutant of PersistFallback: the fallback handles one page and pagination
\* goes on with the browser.
PersistFallbackContinue ==
  /\ cpc = "persist_fb"
  /\ \E writeOk \in BOOLEAN : dbWrite' = BulkWrite(mongo_docs, writeOk)
  /\ IF page_idx + 1 < max_pages
     THEN /\ cpc' = "goto"
          /\ page_idx' = page_idx + 1
          /\ url' = url + 1
          /\ pending' = pending
     ELSE /\ cpc' = "finally"
          /\ pending' = "return"
          /\ UNCHANGED <<page_idx, url>>
  /\ UNCHANGED <<args, closing, results, mongo_docs, seen, net_bucket,
                 dom_cards, browser, outcome, returned, navFailed, browserOps,
                 pagesVisited, noNext, lastFetch, last, served, parseFailed>>

\* Fallback: persist, then return results from inside the loop.
PersistFallback ==
  /\ cpc = "persist_fb"
  /\ \E writeOk \in BOOLEAN : dbWrite' = BulkWrite(mongo_docs, writeOk)
  /\ pending' = "return"
  /\ cpc' = "finally"
  /\ UNCHANGED <<args, closing, page_idx, url, results, mongo_docs, seen, net_bucket,
                 dom_cards, browser, outcome, returned, navFailed, browserOps,
                 pagesVisited, noNext, lastFetch, last, served, parseFailed>>

\* After a successful goto: banners, waits and scrolls, during which the
\* capture tasks append the interesting response bodies; then the first
\* page.content() snapshot and its card selection.
Render ==
  /\ cpc = "render"
  /\ \E captured \in BlobsLeft : \E dom \in DomLeft(Len(captured)) :
       /\ net_bucket' = net_bucket \o captured
       /\ dom_cards' = dom
       /\ served' = served + Len(captured) + Len(dom)
  /\ browserOps' = browserOps + 1
  /\ cpc' = "net"
  /\ UNCHANGED <<args, closing, page_idx, url, results, mongo_docs, seen, pending,
                 browser, outcome, returned, dbWrite, navFailed, pagesVisited,
                 noNext, lastFetch, last, parseFailed>>

\* if not cards and net_bucket: harvest the last 20 captured bodies; when that
\* leaves results non-empty, look for the next link in the markup and either
\* break or continue with the next page.
NetHarvest ==
  /\ cpc = "net"
  /\ LET harvested == Flatten(LastN(net_bucket, NetSlice))
         a == Emit(SelectSeq(harvested, LAMBDA i : NetGate(Cand[i])),
                   Acc(results, mongo_docs, seen))
     IN IF dom_cards = <<>> /\ net_bucket # <<>> /\ AnyFails(harvested)
        THEN \* the targeted parser raises inside the extraction loop
             /\ parseFailed' = TRUE
             /\ pending' = "raise"
             /\ cpc' = "finally"
             /\ last' = Harvest("net", harvested, <<>>)
             /\ UNCHANGED <<results, mongo_docs, seen, url, page_idx, noNext, browserOps>>
        ELSE IF dom_cards = <<>> /\ net_bucket # <<>> /\ harvested # <<>>
        THEN /\ results' = a.results
             /\ mongo_docs' = a.docs
             /\ seen' = a.seen
             /\ last' = Harvest("net", harvested, <<>>)
             /\ UNCHANGED <<pending, parseFailed>>
             /\ IF a.results # <<>>
                THEN /\ browserOps' = browserOps + 1
                     /\ \E next \in BOOLEAN :
                          IF next
                          THEN /\ url' = url + 1
                               /\ page_idx' = page_idx + 1
                               /\ cpc' = NextIter("goto", "final")
                               /\ noNext' = noNext
                          ELSE /\ cpc' = "final"
                               /\ noNext' = TRUE
                               /\ UNCHANGED <<url, page_idx>>
                ELSE /\ cpc' = "inline"
                     /\ UNCHANGED <<url, page_idx, noNext, browserOps>>
        ELSE /\ cpc' = "inline"
             /\ UNCHANGED <<results, mongo_docs, seen, url, page_idx, noNext,
                            browserOps, last, pending, parseFailed>>
  /\ UNCHANGED <<args, closing, net_bucket, dom_cards, browser, outcome,
                 returned, dbWrite, navFailed, pagesVisited, lastFetch, served>>

\* if not cards and not results: harvest the inline scripts of the snapshot,
\* then parse the cards of the same snapshot (the cards that were just found
\* to be empty) with a local seen set.
InlineHarvest ==
  /\ cpc = "inline"
  /\ IF dom_cards = <<>> /\ results = <<>>
     THEN \E inl \in JsonLeft(0) :
            LET a1 == Emit(SelectSeq(inl, LAMBDA i : BrowserInlineGate(Cand[i])),
                           Acc(results, mongo_docs, seen))
                a2 == Emit(SelectSeq(dom_cards, LAMBDA i : BrowserDomGate(Cand[i])),
                           Acc(a1.results, a1.docs, {}))
            IN /\ results' = a2.results
               /\ mongo_docs' = a2.docs
               /\ seen' = a1.seen
               /\ last' = Harvest("inline", inl, dom_cards)
               /\ served' = served + Len(inl)
     ELSE UNCHANGED <<results, mongo_docs, seen, last, served>>
  /\ cpc' = "cards"
  /\ UNCHANGED <<args, closing, page_idx, url, net_bucket, dom_cards, pending, browser,
                 outcome, returned, dbWrite, navFailed, browserOps,
                 pagesVisited, noNext, lastFetch, parseFailed>>

\* soup is None here on every path: take a second page.content() snapshot,
\* select the cards again (cards that were missing may have hydrated by now),
\* run the card loop, then look for the next link and break or advance.
CardsAndAdvance ==
  /\ cpc = "cards"
  /\ \E cards \in (IF dom_cards = <<>> THEN DomLeft(0) ELSE {dom_cards}), next \in BOOLEAN :
       LET a == Emit(SelectSeq(Before(cards), LAMBDA i : BrowserDomGate(Cand[i])),
                     Acc(results, mongo_docs, seen))
       IN /\ results' = a.results
          /\ mongo_docs' = a.docs
          /\ seen' = a.seen
          /\ last' = Harvest("cards", <<>>, cards)
          /\ served' = IF dom_cards = <<>> THEN served + Len(cards) ELSE served
          /\ IF AnyFails(cards)
             THEN \* data = parse_card(c) raises inside the card loop
                  /\ parseFailed' = TRUE
                  /\ pending' = "raise"
                  /\ cpc' = "finally"
                  /\ UNCHANGED <<url, page_idx, noNext>>
             ELSE /\ UNCHANGED <<pending, parseFailed>>
                  /\ IF next
                     THEN /\ url' = url + 1
                          /\ page_idx' = page_idx + 1
                          /\ cpc' = NextIter("goto", "final")
                          /\ noNext' = noNext
                     ELSE /\ cpc' = "final"
                          /\ noNext' = TRUE
                          /\ UNCHANGED <<url, page_idx>>
  /\ browserOps' = browserOps + 1
  /\ UNCHANGED <<args, closing, net_bucket, dom_cards, browser, outcome,
                 returned, dbWrite, navFailed, pagesVisited, lastFetch>>

\* After the loop: if not results and (net_bucket or mongo_docs), harvest the
\* last 40 captured bodies once more.
FinalFallback ==
  /\ cpc = "final"
  /\ LET harvested == Flatten(LastN(net_bucket, FinalNetSlice))
         a == Emit(SelectSeq(harvested, LAMBDA i : BrowserInlineGate(Cand[i])),
                   Acc(results, mongo_docs, seen))
     IN IF results = <<>> /\ (net_bucket # <<>> \/ mongo_docs # <<>>)
        THEN IF AnyFails(harvested)
             THEN \* the targeted parser raises inside the extraction loop
                  /\ parseFailed' = TRUE
                  /\ pending' = "raise"
                  /\ cpc' = "finally"
                  /\ last' = Harvest("final", harvested, <<>>)
                  /\ UNCHANGED <<results, mongo_docs, seen>>
             ELSE /\ results' = a.results
                  /\ mongo_docs' = a.docs
                  /\ seen' = a.seen
                  /\ last' = Harvest("final", harvested, <<>>)
                  /\ cpc' = "persist"
                  /\ UNCHANGED <<pending, parseFailed>>
        ELSE /\ cpc' = "persist"
             /\ UNCHANGED <<results, mongo_docs, seen, last, pending, parseFailed>>
  /\ UNCHANGED <<args, closing, page_idx, url, net_bucket, dom_cards, browser,
                 outcome, returned, dbWrite, navFailed, browserOps,
                 pagesVisited, noNext, lastFetch, served>>

\* Mutant of PersistBrowser: a failed bulk write is not caught.
PersistBrowserAbort ==
  /\ cpc = "persist"
  /\ \E writeOk \in BOOLEAN :
       /\ dbWrite' = BulkWrite(mongo_docs, writeOk)
       /\ pending' = IF dbWrite' = "failed" THEN "raise" ELSE "return"
  /\ cpc' = "finally"
  /\ UNCHANGED <<args, closing, page_idx, url, results, mongo_docs, seen, net_bucket,
                 dom_cards, browser, outcome, returned, navFailed, browserOps,
                 pagesVisited, noNext, lastFetch, last, served, parseFailed>>

\* Browser mode: persist to MongoDB, then return results.
PersistBrowser ==
  /\ cpc = "persist"
  /\ \E writeOk \in BOOLEAN : dbWrite' = BulkWrite(mongo_docs, writeOk)
  /\ pending' = "return"
  /\ cpc' = "finally"
  /\ UNCHANGED <<args, closing, page_idx, url, results, mongo_docs, seen, net_bucket,
                 dom_cards, browser, outcome, returned, navFailed, browserOps,
                 pagesVisited, noNext, lastFetch, last, served, parseFailed>>

\* Mutant of CloseBrowser: the driver is stopped after the close, outside any
\* finally, so a close that raises leaves it running.
CloseBrowserThenStop ==
  /\ cpc = "finally"
  /\ \E closeOk \in BOOLEAN, attached \in BOOLEAN :
       /\ closeCalls' = closeCalls + 1
       /\ browser' = IF closeOk THEN "closed" ELSE "close_raised"
       /\ driver' = IF ~attached THEN "none" ELSE IF closeOk THEN "stopped" ELSE "running"
       /\ outcome' = IF closeOk /\ pending = "return" THEN "returned" ELSE "raised"
       /\ returned' = IF closeOk /\ pending = "return" THEN results ELSE <<>>
  /\ cpc' = "done"
  /\ UNCHANGED <<args, page_idx, url, results, mongo_docs, seen, net_bucket,
                 dom_cards, pending, dbWrite, navFailed, browserOps,
                 pagesVisited, noNext, lastFetch, last, served, parseFailed>>

\* finally: try: await browser.close() finally: stop the driver stashed on the
\* browser, if there is one (attached: getattr(browser, "_playwright", None)
\* is not None).  A close that raises replaces the pending return or
\* exception; the inner finally has run by then.
CloseBrowser ==
  /\ cpc = "finally"
  /\ \E closeOk \in BOOLEAN, attached \in BOOLEAN :
       /\ closeCalls' = closeCalls + 1
       /\ browser' = IF closeOk THEN "closed" ELSE "close_raised"
       /\ driver' = IF attached THEN "stopped" ELSE "none"
       /\ outcome' = IF closeOk /\ pending = "return" THEN "returned" ELSE "raised"
       /\ returned' = IF closeOk /\ pending = "return" THEN results ELSE <<>>
  /\ cpc' = "done"
  /\ UNCHANGED <<args, page_idx, url, results, mongo_docs, seen, net_bucket,
                 dom_cards, pending, dbWrite, navFailed, browserOps,
                 pagesVisited, noNext, lastFetch, last, served, parseFailed>>

CollectNext ==
  \/ Start
  \/ HttpOnlyPage
  \/ PersistHttpOnly
  \/ Goto
  \/ FallbackFetch
  \/ PersistFallback
  \/ Render
  \/ NetHarvest
  \/ InlineHarvest
  \/ CardsAndAdvance
  \/ FinalFallback
  \/ PersistBrowser
  \/ CloseBrowser

\* The collect_estately variables while the batch driver is modelled: the run
\* of each market is summarised by its outcome in ScrapeOne.
CollectIdle ==
  /\ playwright = FALSE
  /\ store = FALSE
  /\ max_pages = 1
  /\ min_price = 0
  /\ min_beds = 0
  /\ min_sqft = 0
  /\ cpc = "idle"
  /\ page_idx = 0
  /\ url = 0
  /\ results = <<>>
  /\ mongo_docs = <<>>
  /\ seen = {}
  /\ net_bucket = <<>>
  /\ dom_cards = <<>>
  /\ pending = "none"
  /\ browser = "none"
  /\ closeCalls = 0
  /\ driver = "none"
  /\ outcome = "running"
  /\ returned = <<>>
  /\ dbWrite = "none"
  /\ navFailed = FALSE
  /\ browserOps = 0
  /\ pagesVisited = 0
  /\ noNext = FALSE
  /\ lastFetch = None
  /\ served = 0
  /\ parseFailed = FALSE
  /\ last = Harvest("none", <<>>, <<>>)

\* The batch-driver variables while one collect_estately run is modelled.
BatchIdle ==
  /\ task = <<>>
  /\ sem = 0
  /\ taskOut = <<>>
  /\ gathered = <<>>

\* The pure-function variables while a run or the batch driver is modelled.
FnIdle ==
  /\ fn = "none"
  /\ fin = <<>>
  /\ fout = [called |-> FALSE]

\* The capture variables while something else is modelled.
GrabIdle ==
  /\ rpc = "none"
  /\ tasks = <<>>
  /\ bucket = <<>>

\* The net_bucket view while something else is modelled.
NetIdle ==
  /\ npc = "none"
  /\ npage = 0
  /\ nbucket = <<>>
  /\ inflight = <<>>
  /\ ncards = FALSE
  /\ nresults = FALSE
  /\ passed = [step |-> "none"]

Init == CollectInit /\ BatchIdle /\ FnIdle /\ GrabIdle /\ NetIdle
Next == CollectNext /\ UNCHANGED <<bvars, fvars, gvars, nvars>>
Spec == Init /\ [][Next]_vars
\* collect_estately is one coroutine whose awaits all carry timeouts: it is
\* never suspended forever.  The three minimums only decide which candidates
\* are appended, and the store whether the bulk write is attempted, never
\* where the loop goes next, so the runs explored for progress take the
\* minimums all absent or all present, and a store that is there.
FairInit == Init /\ min_beds = min_price /\ min_sqft = min_price /\ store
FairSpec == FairInit /\ [][Next]_vars /\ WF_vars(Next)

\* ------------------------------------------------------ run_scraper.main
Markets == 1..NumMarkets

\* What collect_estately can hand back for market m.
Props(m) == {<<m>>}

\* sem = asyncio.Semaphore(CONCURRENCY); gather() creates one task per market.
BatchInit ==
  /\ task = [m \in Markets |-> "queued"]
  /\ sem = CONCURRENCY
  /\ taskOut = [m \in Markets |-> [val |-> <<>>, raised |-> FALSE, collected |-> <<>>]]
  /\ gathered = <<>>

\* Markets between acquiring and releasing the semaphore.
Inside == {m \in Markets : task[m] \in {"sleeping", "collecting"}}

\* Mutant of Acquire: the task does not wait for a free slot.
AcquireUnbounded(m) ==
  /\ task[m] = "queued"
  /\ sem' = sem - 1
  /\ task' = [task EXCEPT ![m] = "sleeping"]
  /\ UNCHANGED <<taskOut, gathered>>

\* bound_scrape: async with sem -- acquire a slot when one is free.
Acquire(m) ==
  /\ task[m] = "queued"
  /\ sem > 0
  /\ sem' = sem - 1
  /\ task' = [task EXCEPT ![m] = "sleeping"]
  /\ UNCHANGED <<taskOut, gathered>>

\* scrape_one: await asyncio.sleep(random.uniform(0.3, 1.3)) completes.
Stagger(m) ==
  /\ task[m] = "sleeping"
  /\ task' = [task EXCEPT ![m] = "collecting"]
  /\ UNCHANGED <<sem, taskOut, gathered>>

\* Mutant of ScrapeOne: the exception of collect_estately is not caught and
\* ends the task.
ScrapeOnePropagate(m) ==
  /\ task[m] = "collecting"
  /\ \/ /\ \E props \in Props(m) :
             taskOut' = [taskOut EXCEPT ![m] = [val |-> props, raised |-> FALSE, collected |-> props]]
        /\ task' = [task EXCEPT ![m] = "done"]
     \/ /\ taskOut' = [taskOut EXCEPT ![m] = [val |-> <<>>, raised |-> TRUE, collected |-> <<>>]]
        /\ task' = [task EXCEPT ![m] = "failed"]
  /\ sem' = sem + 1
  /\ UNCHANGED gathered

\* scrape_one: collect_estately returns props, or raises and the except
\* clause returns []; leaving the async with block releases the slot.
ScrapeOne(m) ==
  /\ task[m] = "collecting"
  /\ \/ \E props \in Props(m) :
          taskOut' = [taskOut EXCEPT ![m] = [val |-> props, raised |-> FALSE, collected |-> props]]
     \/ taskOut' = [taskOut EXCEPT ![m] = [val |-> <<>>, raised |-> TRUE, collected |-> <<>>]]
  /\ sem' = sem + 1
  /\ task' = [task EXCEPT ![m] = "done"]
  /\ UNCHANGED gathered

\* results = await asyncio.gather(...): one entry per market, in market order.
Gather ==
  /\ gathered = <<>>
  /\ \A m \in Markets : task[m] = "done"
  /\ gathered' = [m \in Markets |-> taskOut[m].val]
  /\ UNCHANGED <<task, sem, taskOut>>

BatchNext ==
  \/ \E m \in Markets : Acquire(m)
  \/ \E m \in Markets : Stagger(m)
  \/ \E m \in Markets : ScrapeOne(m)
  \/ Gather

InitBatch == BatchInit /\ CollectIdle /\ FnIdle /\ GrabIdle /\ NetIdle
NextBatch == BatchNext /\ UNCHANGED <<cvars, fvars, gvars, nvars>>
SpecBatch == InitBatch /\ [][NextBatch]_vars
\* asyncio.Semaphore wakes its waiters in FIFO order, so a queued task cannot
\* be overtaken forever; every runnable task is eventually resumed.
FairBatch ==
  /\ SpecBatch
  /\ \A m \in Markets : SF_vars(Acquire(m) /\ UNCHANGED <<cvars, fvars, gvars, nvars>>)
  /\ \A m \in Markets : WF_vars(Stagger(m) /\ UNCHANGED <<cvars, fvars, gvars, nvars>>)
  /\ \A m \in Markets : WF_vars(ScrapeOne(m) /\ UNCHANGED <<cvars, fvars, gvars, nvars>>)
  /\ WF_vars(Gather /\ UNCHANGED <<cvars, fvars, gvars, nvars>>)


\* ------------------------------------------------ calls of pure functions
\* The argument is drawn from the input set of the function called.
InitFn ==
  /\ CollectIdle
  /\ BatchIdle
  /\ GrabIdle
  /\ NetIdle
  /\ fout = [called |-> FALSE]
  /\ \/ fn = "_extract_estately_map_properties" /\ fin \in Bodies
     \/ fn = "_extract_listings_from_json_blob" /\ fin \in Bodies
     \/ fn = "_mine_inline_scripts" /\ fin \in ScriptSeqs
     \/ fn = "parse_card" /\ fin \in Cards
     \/ fn = "_coerce_float" /\ fin \in PyValues
     \/ fn = "_first_price" /\ fin \in PyTexts
     \/ fn = "_extract_status" /\ fin \in StatusInputs
     \/ fn = "_looks_active_for_sale" /\ fin \in {d \in StatusInputs : d.text = <<>>}
     \/ fn = "reattach_query" /\ fin \in [canonical : CanonicalUrls, original : OriginalUrls]
     \/ fn = "parse_card.href" /\ fin \in Markups
     \/ fn = "parse_card.address" /\ fin \in LocCards
     \/ fn = "_normalize_property_from_dict" /\ fin \in AddrDicts

Call(name, result) ==
  /\ fn = name
  /\ ~fout.called
  /\ fout' = result
  /\ UNCHANGED <<fn, fin, cvars, bvars, gvars, nvars>>

CallMapProperties == Call("_extract_estately_map_properties", ExtractEstatelyMapProperties(fin))
CallJsonBlob == Call("_extract_listings_from_json_blob", ExtractListingsFromJsonBlob(fin))
CallMineInline == Call("_mine_inline_scripts", MineInlineScripts(fin))
CallParseCard == Call("parse_card", ParseCard(fin))
CallCoerceFloat == Call("_coerce_float", Returned(CoerceFloat(fin)))
CallFirstPrice == Call("_first_price", Returned(FirstPrice(fin)))
CallExtractStatus == Call("_extract_status", Returned(ExtractStatusActive(fin)))
CallLooksActive == Call("_looks_active_for_sale", Returned(LooksActiveForSale(fin)))
CallReattachQuery == Call("reattach_query", Returned(ReattachQuery(fin.canonical, fin.original)))
CallCardHref == Call("parse_card.href", Returned(CardHref(fin)))
CallCardLocation == Call("parse_card.address", Returned(CardLocation(fin)))
CallNormalize == Call("_normalize_property_from_dict", Returned(NormalizePropertyFromDict(fin)))

NextFn ==
  \/ CallMapProperties
  \/ CallJsonBlob
  \/ CallMineInline
  \/ CallParseCard
  \/ CallCoerceFloat
  \/ CallFirstPrice
  \/ CallExtractStatus
  \/ CallLooksActive
  \/ CallReattachQuery
  \/ CallCardHref
  \/ CallCardLocation
  \/ CallNormalize

SpecFn == InitFn /\ [][NextFn]_vars

\* ------------------------------------------- _capture_json_responses
\* The keywords of the heuristic in _grab.
KEYWORDS ==
  {"search", "listing", "listings", "results", "graphql", "homes", "api",
   "inventory", "properties"}

\* The address of a response, as the sequence of its pieces: a keyword is in
\* the address when it is one of the pieces.
RespUrls == {<<"x">>, <<"x", "api">>}

\* interesting = any(k in (url or "") for k in [...])
Interesting(u) == \E k \in KEYWORDS : \E n \in 1..Len(u) : u[n] = k

\* A response: whether reading its url attribute raises, its address, and what
\* resp.text() does ("text": a non-empty body, "empty": an empty body,
\* "error": it raises).  Only the responses whose body is read vary in it.
Responses ==
  {r \in [urlRaises : BOOLEAN, url : RespUrls, read : {"text", "empty", "error"}] :
     /\ r.urlRaises => r.url = <<"x", "api">>
     /\ (r.urlRaises \/ ~Interesting(r.url)) => r.read = "text"}

\* try: url = resp.url / except Exception: url = ""
GrabUrl(r) == IF r.urlRaises THEN <<>> ELSE r.url

InitGrab ==
  /\ CollectIdle
  /\ BatchIdle
  /\ FnIdle
  /\ NetIdle
  /\ rpc = "register"
  /\ tasks = <<>>
  /\ bucket = <<>>

\* await _capture_json_responses(page, net_bucket): page.on registers the
\* handler and the function returns; it holds no await.
Register ==
  /\ rpc = "register"
  /\ rpc' = "render"
  /\ UNCHANGED <<tasks, bucket>>

\* The page emits a response: lambda r: asyncio.create_task(_grab(r)).  The
\* task is created and the handler returns; the task has not run yet.
Observe ==
  /\ rpc # "register"
  /\ Len(tasks) < MaxResp
  /\ \E r \in Responses : tasks' = Append(tasks, [resp |-> r, pc |-> "created"])
  /\ UNCHANGED <<rpc, bucket>>

\* _grab up to its await: read the url, return when it is not interesting,
\* else start resp.text().
GrabStart(i) ==
  /\ tasks[i].pc = "created"
  /\ tasks' = [tasks EXCEPT ![i].pc =
                 IF Interesting(GrabUrl(tasks[i].resp)) THEN "reading" ELSE "done"]
  /\ UNCHANGED <<rpc, bucket>>

\* Mutant of GrabRead: an empty body is appended as well.
GrabReadKeepsEmpty(i) ==
  /\ tasks[i].pc = "reading"
  /\ tasks' = [tasks EXCEPT ![i].pc = "done"]
  /\ bucket' = IF tasks[i].resp.read # "error" THEN Append(bucket, i) ELSE bucket
  /\ UNCHANGED rpc

\* resp.text() completes: an exception is swallowed, an empty text returns,
\* any other text is appended with its url.
GrabRead(i) ==
  /\ tasks[i].pc = "reading"
  /\ tasks' = [tasks EXCEPT ![i].pc = "done"]
  /\ bucket' = IF tasks[i].resp.read = "text" THEN Append(bucket, i) ELSE bucket
  /\ UNCHANGED rpc

\* The caller's awaits between page.goto and page.content(): banners, waits
\* and scrolls.  None of them waits for a _grab task.
RenderDone ==
  /\ rpc = "render"
  /\ rpc' = "content"
  /\ UNCHANGED <<tasks, bucket>>

NextGrab ==
  /\ \/ Register
     \/ Observe
     \/ \E i \in 1..Len(tasks) : GrabStart(i)
     \/ \E i \in 1..Len(tasks) : GrabRead(i)
     \/ RenderDone
  /\ UNCHANGED <<cvars, bvars, fvars, nvars>>

SpecGrab == InitGrab /\ [][NextGrab]_vars

\* ------------------------- net_bucket over the pages of a browser-mode run
\* The runs of collect_estately in which every page.goto succeeds and
\* max_pages = MaxPages, reduced to what happens to net_bucket: the list is
\* created once before the page loop and every _grab task appends to it.
\* What the two extractors make of a body: "map" (the /map/properties parser
\* returns listings), "json" (it returns nothing, the JSON walker returns
\* listings), "none" (neither returns a listing).
BodyKinds == {"map", "json", "none"}
BurstSizes == {0, 1, MaxBurst}

\* n bodies of kind k from responses of page p
Burst(p, k, n) == [i \in 1..n |-> [page |-> p, kind |-> k]]

\* h1 = _extract_estately_map_properties(url_b, txt_b); if h1: ...; continue
\* harvested.extend(_extract_listings_from_json_blob(txt_b))
Calls(b) ==
  IF b.kind = "map"
  THEN <<"_extract_estately_map_properties">>
  ELSE <<"_extract_estately_map_properties", "_extract_listings_from_json_blob">>

\* for blob in net_bucket[-n:]: the bodies handed to extraction, the index of
\* the first of them in net_bucket, and the extractor calls made for each.
Extraction(step, n) ==
  LET slice == LastN(nbucket, n)
  IN [step |-> step, page |-> npage, from |-> Len(nbucket) - Len(slice) + 1,
      bodies |-> slice, calls |-> [i \in 1..Len(slice) |-> Calls(slice[i])]]

NoExtraction == [step |-> "none"]

InitNet ==
  /\ CollectIdle
  /\ BatchIdle
  /\ FnIdle
  /\ GrabIdle
  /\ npc = "goto"
  /\ npage = 1
  /\ nbucket = <<>>
  /\ inflight = <<>>
  /\ ncards = FALSE
  /\ nresults = FALSE
  /\ passed = NoExtraction

\* await page.goto(url, ...) returns.
NetGoto ==
  /\ npc = "goto"
  /\ npc' = "render"
  /\ UNCHANGED <<npage, nbucket, inflight, ncards, nresults, passed>>

\* Banners, waits and scrolls up to the first page.content(): the page emits
\* n interesting responses; the tasks of all but `late` of them finish before
\* the snapshot is taken.
NetRender ==
  /\ npc = "render"
  /\ \E n \in BurstSizes, k \in BodyKinds, late \in 0..MaxLate, c \in BOOLEAN :
       /\ late <= n
       /\ n = 0 => k = "none"
       /\ nbucket' = nbucket \o Burst(npage, k, n - late)
       /\ inflight' = inflight \o Burst(npage, k, late)
       /\ ncards' = c
  /\ npc' = "harvest"
  /\ UNCHANGED <<npage, nresults, passed>>

\* A _grab task that was still reading finishes during one of the caller's
\* later awaits and appends its body.
NetLate ==
  /\ npc \in {"goto", "render", "advance"}
  /\ inflight # <<>>
  /\ nbucket' = Append(nbucket, Head(inflight))
  /\ inflight' = Tail(inflight)
  /\ UNCHANGED <<npc, npage, ncards, nresults, passed>>

\* The end of one iteration: the next page, or the end of the loop.
NetNextPage(next) ==
  IF next /\ npage < MaxPages
  THEN npc' = "goto" /\ npage' = npage + 1
  ELSE npc' = "final" /\ npage' = npage

\* if not cards and net_bucket: extract from net_bucket[-20:]; if harvested:
\* filter and append; if results: break or continue with the next page.
NetSliceHarvest ==
  /\ npc = "harvest"
  /\ IF ~ncards /\ nbucket # <<>>
     THEN /\ passed' = Extraction("net", NetSlice)
          /\ IF \E i \in 1..Len(passed'.bodies) : passed'.bodies[i].kind # "none"
             THEN \E yields \in BOOLEAN :
                    /\ nresults' = (nresults \/ yields)
                    /\ IF nresults'
                       THEN \E next \in BOOLEAN : NetNextPage(next)
                       ELSE npc' = "advance" /\ npage' = npage
             ELSE /\ npc' = "advance"
                  /\ UNCHANGED <<npage, nresults>>
     ELSE /\ passed' = NoExtraction
          /\ npc' = "advance"
          /\ UNCHANGED <<npage, nresults>>
  /\ UNCHANGED <<nbucket, inflight, ncards>>

\* The inline harvest, the second snapshot and the card loop, which may add
\* records, then the next link.
NetAdvance ==
  /\ npc = "advance"
  /\ \E yields \in BOOLEAN : nresults' = (nresults \/ yields)
  /\ \E next \in BOOLEAN : NetNextPage(next)
  /\ UNCHANGED <<nbucket, inflight, ncards, passed>>

\* if not results and (net_bucket or mongo_docs): extract from
\* net_bucket[-40:].  mongo_docs is empty whenever results is.
NetFinal ==
  /\ npc = "final"
  /\ IF ~nresults /\ nbucket # <<>>
     THEN /\ passed' = Extraction("final", FinalNetSlice)
          /\ \E yields \in BOOLEAN :
               nresults' = (yields /\ \E i \in 1..Len(passed'.bodies) : passed'.bodies[i].kind # "none")
     ELSE UNCHANGED <<passed, nresults>>
  /\ npc' = "done"
  /\ UNCHANGED <<npage, nbucket, inflight, ncards>>

NextNet ==
  /\ \/ NetGoto
     \/ NetRender
     \/ NetLate
     \/ NetSliceHarvest
     \/ NetAdvance
     \/ NetFinal
  /\ UNCHANGED <<cvars, bvars, fvars, gvars>>

SpecNet == InitNet /\ [][NextNet]_vars

\* ------------------------------------------------------------ properties
Range(f) == {f[i] : i \in DOMAIN f}
RecordKey(r) == <<r.address, OrZero(r.price)>>

\* C1: no returned record has an empty address, or neither a price nor an href
\* of its own, or comes from a candidate the status filter classifies inactive.
C1_OnlyValidRecords ==
  outcome = "returned" =>
    \A n \in 1..Len(returned) :
      LET r == returned[n]
      IN /\ r.address # NoStr
         /\ (r.price # None \/ Cand[r.cand].href # NoStr)
         /\ ~Cand[r.cand].text_neg

\* C2: no two returned records share the identity key (address, price).
C2_UniqueKeys ==
  outcome = "returned" =>
    \A m, n \in 1..Len(returned) :
      m # n => RecordKey(returned[m]) # RecordKey(returned[n])

\* C3: once page.goto has failed, the failed page's URL is fetched over plain
\* HTTP, and no call is made on the page object and no further page is visited.
C3_NoBrowserAfterNavFailure ==
  [][navFailed =>
       (/\ browserOps' = browserOps
        /\ pagesVisited' = pagesVisited
        /\ (cpc = "fallback" => lastFetch' = url))]_vars

C3_Witness ==
  /\ navFailed
  /\ cpc = "done"
  /\ outcome = "returned"
  /\ page_idx = 1
  /\ lastFetch = url

\* C4: the records the navigation-failure fallback adds are the records
\* _collect_http_only produces for the same fetched HTML and thresholds.
C4_FallbackSameCascade ==
  [][cpc = "fallback" /\ cpc' = "persist_fb" =>
       results' = results \o CollectHttpOnly(last'.inl, last'.dom).results]_vars

\* C5: at most max_pages pages are visited, no page is visited after a page
\* without next link, and the run terminates.
C5_BoundedPagination ==
  /\ [](pagesVisited <= max_pages)
  /\ [][noNext => pagesVisited' = pagesVisited]_vars
  /\ <>(cpc = "done")

C5_Witness ==
  /\ cpc = "done"
  /\ max_pages = MaxPages
  /\ pagesVisited = max_pages
  /\ ~noNext
  /\ ~navFailed

\* C6: in every harvest loop a candidate is not excluded by a minimum its
\* value is unknown for: a candidate the loop was given that has an address,
\* is active and whose known numbers reach the minimums is among the records.
KnownReachMin(d) ==
  /\ (d.price # None => d.price >= min_price)
  /\ (d.beds # None => d.beds >= min_beds)
  /\ (d.sqft # None => d.sqft >= min_sqft)

Offered ==
  IF last.path = "fallback" THEN last.inl ELSE last.inl \o last.dom

C6_UnknownNotExcluded ==
  \A i \in Range(Offered) :
    (HasMinAddress(Cand[i]) /\ ~Cand[i].text_neg /\ KnownReachMin(Cand[i])) =>
      \E n \in 1..Len(results) : RecordKey(results[n]) = KeyOf(Cand[i])

\* C7: collect_estately always returns normally, with the records extracted.
C7_NeverRaises ==
  cpc = "done" => (outcome = "returned" /\ returned = results)

\* C8: a market whose scrape raised yields [], every other finished market
\* yields what collect_estately returned for it, and gather has one entry per
\* market.
C8_FailureIsolated ==
  /\ \A m \in Markets :
       /\ task[m] \in {"queued", "sleeping", "collecting", "done"}
       /\ taskOut[m].raised => (task[m] = "done" /\ taskOut[m].val = <<>>)
       /\ (task[m] = "done" /\ ~taskOut[m].raised) => taskOut[m].val = taskOut[m].collected
  /\ gathered # <<>> =>
       /\ Len(gathered) = NumMarkets
       /\ \A m \in Markets : gathered[m] = taskOut[m].val

C8_Witness ==
  /\ gathered # <<>>
  /\ \E m \in Markets : taskOut[m].raised /\ gathered[m] = <<>>
  /\ \E m \in Markets : ~taskOut[m].raised /\ gathered[m] = <<m>>

\* C9: never more than CONCURRENCY markets hold a slot, the slots are all
\* accounted for, and every queued market is eventually admitted.
C9_BoundedAdmission ==
  /\ [](Cardinality(Inside) <= CONCURRENCY /\ sem + Cardinality(Inside) = CONCURRENCY)
  /\ <>(\A m \in Markets : task[m] # "queued")

C9_Witness ==
  /\ Cardinality(Inside) = CONCURRENCY
  /\ \E m \in Markets : task[m] = "queued"
  /\ \E m \in Markets : task[m] = "collecting"

\* C10: the persistence step changes neither the records nor the way the run
\* ends: whatever the store write did, the run returns the extracted records
\* (unless closing the browser raises afterwards, in the finally block).
C10_PersistNeverAborts ==
  /\ [][(cpc \in {"persist", "persist_fb", "persist_http"}) =>
          (/\ results' = results
           /\ dbWrite' \in {"ok", "failed", "skipped"}
           /\ (cpc' = "finally" => pending' = "return")
           /\ (cpc' = "done" => (outcome' = "returned" /\ returned' = results)))]_vars
  /\ []((cpc = "done" /\ dbWrite # "none" /\ browser # "close_raised") =>
          (outcome = "returned" /\ returned = results))

C10_Witness ==
  /\ cpc = "done"
  /\ dbWrite = "failed"
  /\ navFailed
  /\ returned # <<>>

\* C11: no extractor lets an exception out, whatever the shape of its input.
Extractors ==
  {"parse_card", "_extract_listings_from_json_blob",
   "_extract_estately_map_properties", "_mine_inline_scripts"}

C11_ExtractorsNeverRaise ==
  (fn \in Extractors /\ fout.called) => ~fout.raised

\* C12: when an extractor fails on one card or one response body, the run
\* does not end with an exception, no accumulated record is lost, and the
\* other items the same step was given (those every filter keeps) still
\* become records.
PassesEveryGate(d) ==
  /\ HasMinAddress(d)
  /\ ~d.text_neg
  /\ OrZero(d.price) >= min_price
  /\ OrZero(d.beds) >= min_beds
  /\ OrZero(d.sqft) >= min_sqft

C12_ParseFailureContained ==
  /\ [][(~parseFailed /\ parseFailed') =>
          (/\ pending' # "raise"
           /\ SubSeq(results', 1, Len(results)) = results
           /\ \A i \in Range(last'.inl \o last'.dom) :
                (~Fails(i) /\ PassesEveryGate(Cand[i])) =>
                  \E n \in 1..Len(results') : RecordKey(results'[n]) = KeyOf(Cand[i]))]_vars
  /\ []((parseFailed /\ ~navFailed /\ cpc = "done") =>
          (outcome = "returned" /\ returned = results))

\* C13: in the record parse_card returns, each of price, beds, baths and sqft
\* is the DOM value when the DOM supplied one, and the structured-data value
\* only when it did not.
NumFields == {"price", "beds", "baths", "sqft"}

C13_DomNumbersWin ==
  (fn = "parse_card" /\ fout.called /\ ~fout.raised /\ ~fout.val.empty) =>
    \A f \in NumFields :
      fout.val[f] = IF fin[f] # None THEN fin[f] ELSE fin.ld[f]

C13_Witness ==
  /\ fn = "parse_card"
  /\ fout.called /\ ~fout.raised /\ ~fout.val.empty
  /\ fin.beds = 3 /\ fin.ld.beds = 4 /\ fout.val.beds = 3
  /\ fin.sqft = None /\ fin.ld.sqft = 4 /\ fout.val.sqft = 4
  /\ fin.price = 0 /\ fin.ld.price = 4

\* C14: both numeric coercions return a numeric input unchanged, read a
\* price text (optional "$", digits with commas, optional decimals, optional
\* k/m/b suffix) as its number scaled by the suffix, and return unknown for a
\* text without a digit; neither raises.
SuffixExp(c) == IF c = "k" THEN 3 ELSE IF c = "m" THEN 6 ELSE IF c = "b" THEN 9 ELSE 0
Unprefixed(cs) == IF cs # <<>> /\ Head(cs) = "$" THEN Tail(cs) ELSE cs
Unsuffixed(cs) ==
  IF cs # <<>> /\ cs[Len(cs)] \in {"k", "m", "b"} THEN SubSeq(cs, 1, Len(cs) - 1) ELSE cs
PriceBody(cs) == Unsuffixed(Unprefixed(cs))
IsPriceText(cs) ==
  LET b == PriceBody(cs)
      whole == RunLen(b, 1, Digits \cup {","})
  IN /\ b # <<>>
     /\ b[1] \in Digits
     /\ \/ whole = Len(b)
        \/ /\ b[whole + 1] = "."
           /\ whole + 1 < Len(b)
           /\ RunLen(b, whole + 2, Digits) = Len(b) - whole - 1
PriceValue(cs) ==
  LET u == Unprefixed(cs)
  IN Scale(PyFloat(SelectSeq(PriceBody(cs), LAMBDA c : c # ",")), SuffixExp(u[Len(u)]))

C14_CoercionContract ==
  (fn \in {"_coerce_float", "_first_price"} /\ fout.called) =>
    /\ ~fout.raised
    /\ fin.type = "num" => fout.val = fin.num
    /\ (fin.type = "str" /\ IsPriceText(fin.chars)) => fout.val = PriceValue(fin.chars)
    /\ (fin.type = "str" /\ \A i \in 1..Len(fin.chars) : fin.chars[i] \notin Digits) =>
         fout.val = Unknown

\* C15: the status filter returns active for a candidate without status
\* field whose text holds no negative and no positive token; for a candidate
\* with a non-boolean status it returns inactive exactly when the status or
\* the text holds a negative token.
StatusFilters == {"_extract_status", "_looks_active_for_sale"}

C15_StatusDefault ==
  (fn \in StatusFilters /\ fout.called) =>
    /\ (fin.status.kind = "absent" /\ fin.flag.kind = "absent"
        /\ ~AnyIn(fin.text, NEG_STATUS) /\ ~AnyIn(fin.text, POS_STATUS_TOKENS)) =>
         fout.val = TRUE
    /\ (fin.status.kind = "str" /\ fin.flag.kind = "absent") =>
         fout.val = ~(AnyIn(fin.status.words, NEG_STATUS) \/ AnyIn(fin.text, NEG_STATUS))

\* C16: when the candidate carries a boolean under onMarket, isActive or
\* forSale, _extract_status returns that boolean.
C16_BooleanDecides ==
  (fn = "_extract_status" /\ fout.called /\ fin.flag.kind = "bool") =>
    fout.val = fin.flag.b

\* C17: the source URL of every returned record is the candidate's href
\* resolved against the site's origin, or the page URL for a candidate without
\* href; it is never a bare path.
C17_SourceUrlAbsolute ==
  outcome = "returned" =>
    \A n \in 1..Len(returned) :
      LET r == returned[n]
          href == Cand[r.cand].href
      IN /\ r.source_url \notin RelPaths
         /\ r.source_url = IF href = NoStr THEN PageUrl ELSE UrlJoin(PageUrl, href)

\* C18: the record list only grows at its end, what is returned is that
\* list, and a step appends a record only for a key no earlier record has (a
\* later candidate with a key already recorded changes nothing).
C18_DiscoveryOrder ==
  /\ [][/\ Len(results') >= Len(results)
        /\ SubSeq(results', 1, Len(results)) = results
        /\ \A n \in (Len(results) + 1)..Len(results') :
             \A m \in 1..(n - 1) : RecordKey(results'[m]) # RecordKey(results'[n])]_vars
  /\ [](outcome = "returned" => returned = results)

\* C19: without Playwright no browser is launched and no page object is
\* used; each iteration fetches the current URL over HTTP and adds what
\* _collect_http_only yields for it, at most max_pages times; a failed fetch
\* ends pagination with the records of the earlier pages kept and returned.
C19_HttpOnlyMode ==
  /\ [](~playwright =>
          (/\ browser = "none"
           /\ browserOps = 0
           /\ cpc \in {"start", "http", "persist_http", "done"}
           /\ pagesVisited <= max_pages))
  /\ [][(~playwright /\ cpc = "http") =>
          (/\ lastFetch' = url
           /\ pagesVisited' = pagesVisited + 1
           /\ IF last'.path = "http_failed"
              THEN results' = results /\ cpc' = "persist_http"
              ELSE results' = results \o CollectHttpOnly(last'.inl, last'.dom).results)]_vars
  /\ []((~playwright /\ cpc = "done") => (outcome = "returned" /\ returned = results))

C19_Witness ==
  /\ ~playwright
  /\ cpc = "done"
  /\ last.path = "http_failed"
  /\ pagesVisited = 2
  /\ outcome = "returned"
  /\ returned # <<>>

\* C20: reattach_query returns the canonical scheme, host and path; its query
\* holds every parameter of the original URL with the original value, no
\* other value for a key of the original URL, and every parameter of the
\* canonical URL whose key the original URL does not have.
QueryKeys(q) == {q[i][1] : i \in 1..Len(q)}

C20_ReattachQuery ==
  (fn = "reattach_query" /\ fout.called) =>
    LET c == fin.canonical
        o == fin.original
        r == fout.val
    IN /\ ~fout.raised
       /\ r.scheme = c.scheme /\ r.netloc = c.netloc /\ r.path = c.path
       /\ Range(o.query) \subseteq Range(r.query)
       /\ \A kv \in Range(r.query) : kv[1] \in QueryKeys(o.query) => kv \in Range(o.query)
       /\ \A kv \in Range(c.query) : kv[1] \notin QueryKeys(o.query) => kv \in Range(r.query)

\* C21: on a page whose first snapshot holds cards the network harvest adds
\* nothing, and on a page whose first snapshot holds no card and whose network
\* harvest added nothing the inline scripts are harvested, whether or not an
\* earlier page produced records.
C21_HarvestCascade ==
  /\ [][(cpc = "net" /\ dom_cards # <<>>) =>
          (cpc' = "inline" /\ results' = results /\ mongo_docs' = mongo_docs)]_vars
  /\ [][(cpc = "inline" /\ dom_cards = <<>>) => last'.path = "inline"]_vars

\* C22: the registration and the caller's rendering steps can always be taken,
\* whatever the state of the capture tasks; a response adds one task and
\* nothing else; a task never moves the caller; a failed read leaves the
\* bucket as it was; and the bucket holds, once each, exactly the responses
\* whose task has finished, whose address holds a keyword and whose body is
\* not empty.
Appended ==
  {i \in 1..Len(tasks) :
     /\ tasks[i].pc = "done"
     /\ ~tasks[i].resp.urlRaises
     /\ Interesting(tasks[i].resp.url)
     /\ tasks[i].resp.read = "text"}

C22_CaptureNeverBlocks ==
  /\ [](rpc = "register" => ENABLED Register)
  /\ [](rpc = "render" => ENABLED RenderDone)
  /\ [][tasks' # tasks => rpc' = rpc]_vars
  /\ [][Len(tasks') # Len(tasks) =>
          (/\ tasks' = Append(tasks, tasks'[Len(tasks')])
           /\ tasks'[Len(tasks')].pc = "created"
           /\ bucket' = bucket)]_vars
  /\ [][\A i \in 1..Len(tasks) :
          (tasks[i].pc = "reading" /\ tasks'[i].pc = "done" /\ tasks[i].resp.read = "error")
            => bucket' = bucket]_vars
  /\ [](Range(bucket) = Appended /\ Len(bucket) = Cardinality(Appended))

C22_Witness ==
  /\ rpc = "content"
  /\ Len(tasks) = 3
  /\ tasks[1].resp.read = "error" /\ tasks[1].pc = "done"
  /\ tasks[2].pc = "reading"
  /\ tasks[3].resp.read = "text" /\ tasks[3].pc = "done"
  /\ bucket = <<3>>

\* C23: every body a page's network harvest extracts from comes from a
\* response of that page.
C23_HarvestOfThisPage ==
  passed.step = "net" =>
    \A i \in 1..Len(passed.bodies) : passed.bodies[i].page = passed.page

\* C24: on a page without cards, every body in net_bucket that comes from a
\* response of the page is handed to extraction, the /map/properties parser
\* first and the JSON walker only after it returned nothing.
C24_EveryBodyExtracted ==
  [][(npc = "harvest" /\ ~ncards) =>
       \A i \in 1..Len(nbucket) :
         nbucket[i].page = npage =>
           /\ passed'.step = "net"
           /\ i >= passed'.from
           /\ passed'.bodies[i - passed'.from + 1] = nbucket[i]
           /\ passed'.calls[i - passed'.from + 1] = Calls(nbucket[i])]_vars

\* C25: the link parse_card returns for a card comes from an element that
\* lies outside every extension-injected fragment.
C25_LinkOutsideExtensionUi ==
  (fn = "parse_card.href" /\ fout.called /\ fout.val.found) =>
    fin[fout.val.pos].ext = "none"

\* C26: in the record parse_card returns, the address is the street of the
\* structured data when there is one and the markup has no address or its
\* address does not contain that street, and the address of the markup
\* otherwise; city, state and zip are those of the markup, and those of the
\* structured data only where the markup has none.
LocFields == {"city", "state", "zip"}

C26_DomAddressKept ==
  (fn = "parse_card.address" /\ fout.called /\ ~fout.val.empty) =>
    /\ fout.val.address =
         IF fin.ld.street # NoWords /\ (fin.address = NoWords \/ ~Contains(fin.address, fin.ld.street))
         THEN fin.ld.street ELSE fin.address
    /\ \A f \in LocFields :
         fout.val[f] = IF fin[f] # NoStr THEN fin[f] ELSE fin.ld[f]

C26_Witness ==
  /\ fn = "parse_card.address" /\ fout.called
  /\ fin.address = <<"12", "Main", "Austin">>
  /\ fin.ld.street = <<"12", "Main">>
  /\ fin.city = NoStr /\ fin.ld.city = "lc"
  /\ fin.state = "ds" /\ fin.ld.state = "ls"
  /\ fout.val.address = <<"12", "Main", "Austin">>
  /\ fout.val.city = "lc"
  /\ fout.val.state = "ds"

\* C27: the full-address key of a document has no upper-case letter, no
\* white space at either end and no run of two white-space characters.
C27_KeyNormalized ==
  (fn = "_normalize_property_from_dict" /\ fout.called) =>
    LET k == fout.val.fullAddress_ci
    IN /\ k = Lower(k)
       /\ k = Strip(k)
       /\ \A i \in 1..(Len(k) - 1) : ~(k[i] = " " /\ k[i + 1] = " ")

\* C29: once the browser is launched, every way out of the run (return after
\* the loop, return from the navigation-failure fallback, break, exception)
\* calls browser.close() exactly once, no close happens before the way out,
\* and a driver attached to the browser is stopped, also when the close raised.
C29_BrowserClosedOnce ==
  /\ closeCalls <= 1
  /\ (outcome = "running") => (closeCalls = 0 /\ browser \in {"none", "open"})
  /\ (outcome # "running" /\ playwright) =>
       /\ closeCalls = 1
       /\ browser \in {"closed", "close_raised"}
       /\ driver # "running"
  /\ ~playwright => (browser = "none" /\ closeCalls = 0 /\ driver = "none")

C29_Witness ==
  /\ cpc = "done"
  /\ browser = "close_raised"
  /\ closeCalls = 1
  /\ driver = "stopped"
  /\ outcome = "raised"
  /\ dbWrite # "none"

C30_MinimumsHold ==
  /\ \A n \in 1..Len(results) : KnownReachMin(results[n])
  /\ \A n \in 1..Len(returned) : KnownReachMin(returned[n])

C30_Witness ==
  /\ outcome = "returned"
  /\ min_price = MinHi
  /\ min_beds = MinHi
  /\ min_sqft = MinHi
  /\ \E n \in 1..Len(returned) :
       /\ returned[n].cand \in EnrichedIds
       /\ returned[n].price # None
       /\ returned[n].beds # None
       /\ returned[n].sqft # None

====
